---- MODULE Spec2Model ----
(***************************************************************************)
(* Natural-language-to-filter pipeline of src/src/agent.py (SimpleNLAgent): *)
(* provider chain, response normalizer, filter validator and rule-based     *)
(* extractor, as one state machine over a single request; the search       *)
(* client of src/src/pinecone_client.py, the handlers of src/src/api.py and *)
(* src/fastapi_app.py around it, and a second request in flight.            *)
(*                                                                          *)
(* Query strings are TLA+ strings and every substring test, index search    *)
(* and regular expression of the source is computed on their characters.    *)
(* Provider response texts are sequences of lexical tokens ("{", "}", the   *)
(* code fence, members, separators, prose); JSON decoding is computed on    *)
(* those tokens.  JSON values are tagged records [k, v].                    *)
(***************************************************************************)
EXTENDS Integers, Sequences, FiniteSets, TLC

VARIABLES
    query,              \* natural_language_query of the request
    openrouter_client,  \* self.openrouter_client is set (agent.py:29-34)
    openai_client,      \* self.openai_client is set (agent.py:38-40)
    pc,                 \* position of the request in the pipeline
    caller,             \* who called _rule_based_extraction / _parse_response
    model_idx,          \* index into free_models of the next candidate
    calls,              \* provider calls issued so far, in order
    response_text,      \* value returned by _call_llm_with_fallback
    parsed_filter,      \* filter_dict local of generate_pinecone_filter
    query_lower,        \* query_lower local of _rule_based_extraction
    filter_dict,        \* filter_dict local of _rule_based_extraction
    player_tags,        \* player_tags local of _rule_based_extraction
    result,             \* what the entry operation returned or raised
    endpoint,           \* entry point of the request outside the agent
    index,              \* pinecone_client.index is set (pinecone_client.py:57)
    search_filter,      \* filter_dict argument of search
    external,           \* calls search made to its collaborators, in order
    search_results,     \* what search returned
    response,           \* QueryResponse returned by query_and_search
    parked              \* locals of a second request in flight, not running

\* state of the search client and of the /query handler, and the request
\* that is not running
apiVars == <<endpoint, index, search_filter, external, search_results, response,
             parked>>

vars == <<query, openrouter_client, openai_client, pc, caller, model_idx, calls,
          response_text, parsed_filter, query_lower, filter_dict, player_tags,
          result, endpoint, index, search_filter, external, search_results,
          response, parked>>

----------------------------------------------------------------------------
(* Bounds of the model *)

\* longest list of entity mentions in a generated query
MaxEntities == 2
\* longest list of text segments in a generated provider response
MaxSegments == 3
\* most keys of a generated JSON object handed to the normalizer
MaxFields == 3
\* most date phrases in a generated query of the date extractor
MaxPhrases == 2

----------------------------------------------------------------------------
(* JSON values *)

Str(s) == [k |-> "str", v |-> s]
Num(n) == [k |-> "num", v |-> n]
Lst(l) == [k |-> "list", v |-> l]
Obj(m) == [k |-> "obj", v |-> m]

\* the empty dict {}
EmptyMap == <<>>

\* dict.update(other): keys of other win
Update(m, other) == other @@ m

----------------------------------------------------------------------------
(* Python str operations, on characters *)

Char(s, i) == SubSeq(s, i, i)

\* p in s
Contains(s, p) ==
    \E i \in 1..(Len(s) - Len(p) + 1) : SubSeq(s, i, i + Len(p) - 1) = p

\* 1-based position of the first occurrence of p in s, 0 when absent
FirstIndex(s, p) ==
    IF Contains(s, p)
    THEN CHOOSE i \in 1..(Len(s) - Len(p) + 1) :
            /\ SubSeq(s, i, i + Len(p) - 1) = p
            /\ \A j \in 1..(i - 1) : SubSeq(s, j, j + Len(p) - 1) # p
    ELSE 0

UpperChars == <<"A","B","C","D","E","F","G","H","I","J","K","L","M",
                "N","O","P","Q","R","S","T","U","V","W","X","Y","Z">>
LowerChars == <<"a","b","c","d","e","f","g","h","i","j","k","l","m",
                "n","o","p","q","r","s","t","u","v","w","x","y","z">>

\* the lower-case letter of each upper-case letter
LowerOf == [c \in {UpperChars[i] : i \in 1..Len(UpperChars)} |->
               LowerChars[CHOOSE i \in 1..Len(UpperChars) : UpperChars[i] = c]]

LowerChar(c) == IF c \in DOMAIN LowerOf THEN LowerOf[c] ELSE c

RECURSIVE LowerFrom(_, _)
LowerFrom(s, i) ==
    IF i > Len(s) THEN "" ELSE LowerChar(Char(s, i)) \o LowerFrom(s, i + 1)

\* str.lower()
Lower(s) == LowerFrom(s, 1)

Digits == <<"0","1","2","3","4","5","6","7","8","9">>
IsDigit(c) == \E i \in 1..10 : Digits[i] = c
DigitValue(c) == (CHOOSE i \in 1..10 : Digits[i] = c) - 1
IsSpace(c) == c = " "
\* \w of the re module
IsWordChar(c) ==
    \/ IsDigit(c)
    \/ c = "_"
    \/ \E i \in 1..Len(UpperChars) : UpperChars[i] = c \/ LowerChars[i] = c

\* first position >= i of s whose character is not a digit / not a space
RECURSIVE SkipDigits(_, _)
SkipDigits(s, i) ==
    IF i <= Len(s) /\ IsDigit(Char(s, i)) THEN SkipDigits(s, i + 1) ELSE i
RECURSIVE SkipSpaces(_, _)
SkipSpaces(s, i) ==
    IF i <= Len(s) /\ IsSpace(Char(s, i)) THEN SkipSpaces(s, i + 1) ELSE i

\* int(digits)
RECURSIVE ParseIntFrom(_, _, _)
ParseIntFrom(s, i, acc) ==
    IF i > Len(s) THEN acc
    ELSE ParseIntFrom(s, i + 1, acc * 10 + DigitValue(Char(s, i)))
ParseInt(s) == ParseIntFrom(s, 1, 0)

----------------------------------------------------------------------------
(* datetime: proleptic Gregorian ordinals and UTC timestamps *)

IsLeap(y) == (y % 4 = 0) /\ ((y % 100 # 0) \/ (y % 400 = 0))

\* days before 1 January of year y (ordinal of 0001-01-01 is 1)
DaysBeforeYear(y) ==
    (y - 1) * 365 + ((y - 1) \div 4) - ((y - 1) \div 100) + ((y - 1) \div 400)

DaysInMonth(y, m) ==
    IF m = 2 THEN (IF IsLeap(y) THEN 29 ELSE 28)
    ELSE IF m \in {4, 6, 9, 11} THEN 30 ELSE 31

RECURSIVE DaysBeforeMonth(_, _)
DaysBeforeMonth(y, m) ==
    IF m = 1 THEN 0 ELSE DaysBeforeMonth(y, m - 1) + DaysInMonth(y, m - 1)

\* datetime(y, m, d).toordinal()
Ordinal(y, m, d) == DaysBeforeYear(y) + DaysBeforeMonth(y, m) + d

\* int(datetime(..., tzinfo=utc).timestamp()) of the midnight with that ordinal
Timestamp(ord) == (ord - Ordinal(1970, 1, 1)) * 86400

----------------------------------------------------------------------------
(* Results of operations that can raise *)

\* Python None
NoneValue == [k |-> "none", v |-> ""]
\* an exception of class e propagating out of an operation
Raise(e) == [k |-> "exc", v |-> e]
IsRaise(x) == x.k = "exc"

----------------------------------------------------------------------------
(* _extract_date_filter, agent.py:443-537 *)

current_year == 2025

\* {"$gte": a, "$lt": b}
DateRange(a, b) == Obj(("$gte" :> Num(a)) @@ ("$lt" :> Num(b)))

\* months dict, in insertion order (agent.py:470-474)
months == <<"january", "february", "march", "april", "may", "june", "july",
            "august", "september", "october", "november", "december">>

\* re.search(r'\b(20\d{2})\b', query): position of the first match, 0 if none
YearMatch(q) ==
    LET ok(i) ==
            /\ SubSeq(q, i, i + 1) = "20"
            /\ IsDigit(Char(q, i + 2)) /\ IsDigit(Char(q, i + 3))
            /\ (i = 1 \/ ~IsWordChar(Char(q, i - 1)))
            /\ (i + 3 = Len(q) \/ ~IsWordChar(Char(q, i + 4)))
        cands == {i \in 1..(Len(q) - 3) : ok(i)}
    IN IF cands = {} THEN 0 ELSE CHOOSE i \in cands : \A j \in cands : i <= j

\* a month branch whose December range ends in January of the same year
MonthRangeNoRollover(q, m) ==
    LET ym == YearMatch(q)
        year == IF ym > 0 THEN ParseInt(SubSeq(q, ym, ym + 3)) ELSE current_year
        start_date == Ordinal(year, m, 1)
        end_date == IF m = 12 THEN Ordinal(year, 1, 1)
                    ELSE Ordinal(year, m + 1, 1)
    IN DateRange(Timestamp(start_date), Timestamp(end_date))

\* the month branch taken for month number m (agent.py:478-492)
MonthRange(q, m) ==
    LET ym == YearMatch(q)
        year == IF ym > 0 THEN ParseInt(SubSeq(q, ym, ym + 3)) ELSE current_year
        start_date == Ordinal(year, m, 1)
        end_date == IF m = 12 THEN Ordinal(year + 1, 1, 1)
                    ELSE Ordinal(year, m + 1, 1)
    IN DateRange(Timestamp(start_date), Timestamp(end_date))

\* the "last month" branch, from the fixed current date (agent.py:495-514)
LastMonthRange ==
    LET cur_year == 2025
        cur_month == 7
        last_month == IF cur_month = 1 THEN 12 ELSE cur_month - 1
        last_year == IF cur_month = 1 THEN cur_year - 1 ELSE cur_year
        start_date == Ordinal(last_year, last_month, 1)
        end_date == IF last_month = 12 THEN Ordinal(last_year + 1, 1, 1)
                    ELSE Ordinal(last_year, last_month + 1, 1)
    IN DateRange(Timestamp(start_date), Timestamp(end_date))

\* re.search(r'previous\s+(\d+)\s+days', query_lower): the captured digits of
\* the first match, "" if none
DaysMatch(ql) ==
    LET d1(i) == SkipSpaces(ql, i + 8)
        d2(i) == SkipDigits(ql, d1(i))
        d3(i) == SkipSpaces(ql, d2(i))
        ok(i) ==
            /\ SubSeq(ql, i, i + 7) = "previous"
            /\ d1(i) > i + 8
            /\ d2(i) > d1(i)
            /\ d3(i) > d2(i)
            /\ d3(i) + 3 <= Len(ql)
            /\ SubSeq(ql, d3(i), d3(i) + 3) = "days"
        cands == {i \in 1..(Len(ql) - 7) : ok(i)}
        first == CHOOSE i \in cands : \A j \in cands : i <= j
    IN IF cands = {} THEN "" ELSE SubSeq(ql, d1(first), d2(first) - 1)

\* a range that starts at the current date and ends days before it
PreviousDaysRangeSwapped(days) ==
    LET current_date == Ordinal(2025, 7, 14)
    IN IF days > 999999999 \/ current_date - days < 1
       THEN Raise("OverflowError")
       ELSE DateRange(Timestamp(current_date), Timestamp(current_date - days))

\* current_date - timedelta(days=days) and the range built from it
\* (agent.py:520-526).  timedelta raises OverflowError above 999999999 days;
\* the subtraction raises OverflowError when the date would precede
\* 0001-01-01 (ordinal 1).
PreviousDaysRange(days) ==
    LET current_date == Ordinal(2025, 7, 14)
    IN IF days > 999999999 \/ current_date - days < 1
       THEN Raise("OverflowError")
       ELSE DateRange(Timestamp(current_date - days), Timestamp(current_date))

\* the "last week" branch (agent.py:529-535)
LastWeekRange ==
    LET current_date == Ordinal(2025, 7, 14)
    IN DateRange(Timestamp(current_date - 7), Timestamp(current_date))

\* a date extractor that tests "last week" before everything else
DateFilterWeekFirst(q) ==
    LET ql == Lower(q)
        hit == {m \in 1..12 : Contains(ql, months[m])}
        first_month == CHOOSE m \in hit : \A n \in hit : m <= n
    IN IF Contains(ql, "last week")
       THEN LastWeekRange
       ELSE IF Contains(ql, "last year")
       THEN DateRange(Timestamp(Ordinal(2024, 1, 1)), Timestamp(Ordinal(2025, 1, 1)))
       ELSE IF Contains(ql, "this year") \/ Contains(q, "2025")
       THEN DateRange(Timestamp(Ordinal(2025, 1, 1)), Timestamp(Ordinal(2026, 1, 1)))
       ELSE IF hit # {}
       THEN MonthRange(q, first_month)
       ELSE IF Contains(ql, "last month")
       THEN LastMonthRange
       ELSE IF Contains(ql, "previous") /\ Contains(ql, "days") /\ DaysMatch(ql) # ""
       THEN PreviousDaysRange(ParseInt(DaysMatch(ql)))
       ELSE NoneValue

\* _extract_date_filter(query): a range, None, or an exception
_extract_date_filter(q) ==
    LET ql == Lower(q)
        hit == {m \in 1..12 : Contains(ql, months[m])}
        first_month == CHOOSE m \in hit : \A n \in hit : m <= n
    IN IF Contains(ql, "last year")
       THEN DateRange(Timestamp(Ordinal(2024, 1, 1)), Timestamp(Ordinal(2025, 1, 1)))
       ELSE IF Contains(ql, "this year") \/ Contains(q, "2025")
       THEN DateRange(Timestamp(Ordinal(2025, 1, 1)), Timestamp(Ordinal(2026, 1, 1)))
       ELSE IF hit # {}
       THEN MonthRange(q, first_month)
       ELSE IF Contains(ql, "last month")
       THEN LastMonthRange
       ELSE IF Contains(ql, "previous") /\ Contains(ql, "days") /\ DaysMatch(ql) # ""
       THEN PreviousDaysRange(ParseInt(DaysMatch(ql)))
       ELSE IF Contains(ql, "last week")
       THEN LastWeekRange
       ELSE NoneValue

----------------------------------------------------------------------------
(* _rule_based_extraction, agent.py:375-441 *)

real_authors == <<"Jane Doe", "Mary Poppins", "Akainu">>

\* an author loop without the break: the last author of the list found wins
AuthorStepNoBreak(ql) ==
    LET hit == {i \in 1..Len(real_authors) : Contains(ql, Lower(real_authors[i]))}
        last == CHOOSE i \in hit : \A j \in hit : i >= j
    IN IF hit = {} THEN EmptyMap ELSE "author" :> Str(real_authors[last])

\* agent.py:380-385: the first author of the list found in the query
AuthorStep(ql) ==
    LET hit == {i \in 1..Len(real_authors) : Contains(ql, Lower(real_authors[i]))}
        first == CHOOSE i \in hit : \A j \in hit : i <= j
    IN IF hit = {} THEN EmptyMap ELSE "author" :> Str(real_authors[first])

\* the player checks in the order the code makes them (agent.py:392-399)
PlayerTable ==
    << [full |-> "rohit sharma",   short |-> "rohit",   tag |-> "#RohitSharma"],
       [full |-> "shubman gill",   short |-> "shubman", tag |-> "#ShubmanGill"],
       [full |-> "virat kohli",    short |-> "virat",   tag |-> "#ViratKohli"],
       [full |-> "shikhar dhawan", short |-> "shikhar", tag |-> "#ShikharDhawan"] >>

PlayerMentioned(ql, i) ==
    Contains(ql, PlayerTable[i].full) \/ Contains(ql, PlayerTable[i].short)

\* player_tags after the checks from entry i on
RECURSIVE PlayerTagsFrom(_, _)
PlayerTagsFrom(ql, i) ==
    IF i > Len(PlayerTable) THEN <<>>
    ELSE IF PlayerMentioned(ql, i)
         THEN <<PlayerTable[i].tag>> \o PlayerTagsFrom(ql, i + 1)
         ELSE PlayerTagsFrom(ql, i + 1)

DetectPlayerTags(ql) == PlayerTagsFrom(ql, 1)

and_indicators ==
    << "containing both", "with both", "having both", "includes both",
       "posts containing both", "articles containing both",
       "posts with both", "articles with both" >>

use_and_logic(ql) ==
    \E i \in 1..Len(and_indicators) : Contains(ql, and_indicators[i])

\* agent.py:423-434: team/topic term chosen when no player is mentioned
TopicTag(ql) ==
    IF Contains(ql, "mumbai indians") \/ Contains(ql, "mi") THEN "#MumbaiIndians"
    ELSE IF Contains(ql, "rajasthan royals") \/ Contains(ql, "rr") THEN "#RajasthanRoyals"
    ELSE IF Contains(ql, "gujarat titans") \/ Contains(ql, "gt") THEN "#GujaratTitans"
    ELSE IF Contains(ql, "ipl 2025") \/ Contains(ql, "ipl2025") THEN "#IPL2025"
    ELSE IF Contains(ql, "ipl") THEN "#IPL2025"
    ELSE IF Contains(ql, "cricket") THEN "#RohitSharma"
    ELSE ""

\* [{"tags": tag} for tag in player_tags]
AndMembers(tags) == [i \in 1..Len(tags) |-> Obj("tags" :> Str(tags[i]))]

\* player_tags as a JSON list of strings
TagList(tags) == [i \in 1..Len(tags) |-> Str(tags[i])]

\* a boolean-logic step without the conjunction branch
TagStepNoAnd(ql, fd, tags) ==
    IF Len(tags) > 1
    THEN Update(fd, "tags" :> Obj("$in" :> Lst(TagList(tags))))
    ELSE IF Len(tags) = 1
    THEN Update(fd, "tags" :> Str(tags[1]))
    ELSE IF TopicTag(ql) # ""
    THEN Update(fd, "tags" :> Str(TopicTag(ql)))
    ELSE fd

\* a boolean-logic step that builds a conjunction for any two players
TagStepAlwaysAnd(ql, fd, tags) ==
    IF Len(tags) > 1
    THEN "$and" :> Lst(AndMembers(tags))
    ELSE IF Len(tags) = 1
    THEN Update(fd, "tags" :> Str(tags[1]))
    ELSE IF TopicTag(ql) # ""
    THEN Update(fd, "tags" :> Str(TopicTag(ql)))
    ELSE fd

\* agent.py:401-434: filter_dict after the boolean-logic step
TagStep(ql, fd, tags) ==
    IF Len(tags) > 1
    THEN IF use_and_logic(ql)
         THEN "$and" :> Lst(AndMembers(tags))
         ELSE Update(fd, "tags" :> Obj("$in" :> Lst(TagList(tags))))
    ELSE IF Len(tags) = 1
    THEN Update(fd, "tags" :> Str(tags[1]))
    ELSE IF TopicTag(ql) # ""
    THEN Update(fd, "tags" :> Str(TopicTag(ql)))
    ELSE fd

\* agent.py:436-439: filter_dict after the date step, d not an exception
DateStep(fd, d) ==
    IF d.k # "none" THEN Update(fd, "publishedTimestamp" :> d) ELSE fd

\* the whole function: the returned filter, or the exception it raises
_rule_based_extraction(q) ==
    LET ql == Lower(q)
        d == _extract_date_filter(q)
    IN IF IsRaise(d) THEN d
       ELSE Obj(DateStep(TagStep(ql, AuthorStep(ql), DetectPlayerTags(ql)), d))

----------------------------------------------------------------------------
(* Provider response text: a sequence of lexical tokens *)

\* the three-backquote code fence
FENCE == "<fence>"

\* member tokens  "key":value  whose value holds no brace
MemberTable ==
    << [tok |-> "\"author\":\"A\"",               key |-> "author", val |-> Str("A")],
       [tok |-> "\"author\":\"B\"",               key |-> "author", val |-> Str("B")],
       [tok |-> "\"tags\":\"#X\"",                key |-> "tags",   val |-> Str("#X")],
       [tok |-> "\"tags\":[\"#X\",\"#Y\"]",       key |-> "tags",
            val |-> Lst(<<Str("#X"), Str("#Y")>>)],
       [tok |-> "\"$or\":[\"#X\",\"#Y\"]",        key |-> "$or",
            val |-> Lst(<<Str("#X"), Str("#Y")>>)],
       [tok |-> "\"query\":\"author:Jane Doe\"",  key |-> "query",
            val |-> Str("author:Jane Doe")],
       [tok |-> "\"limit\":5",                    key |-> "limit",  val |-> Num(5)],
       [tok |-> "\"$and\":[]",                    key |-> "$and",   val |-> Lst(<<>>)] >>

\* key tokens  "key":  whose value is the object that follows
KeyTable ==
    << [tok |-> "\"tags\":", key |-> "tags"] >>

IsMemberTok(t) == \E i \in 1..Len(MemberTable) : MemberTable[i].tok = t
MemberOf(t) == MemberTable[CHOOSE i \in 1..Len(MemberTable) : MemberTable[i].tok = t]
IsKeyTok(t) == \E i \in 1..Len(KeyTable) : KeyTable[i].tok = t
KeyOf(t) == KeyTable[CHOOSE i \in 1..Len(KeyTable) : KeyTable[i].tok = t].key

RECURSIVE SkipWs(_, _)
SkipWs(t, i) == IF i <= Len(t) /\ t[i] = " " THEN SkipWs(t, i + 1) ELSE i

\* text.strip() is empty
IsBlank(t) == SkipWs(t, 1) > Len(t)

----------------------------------------------------------------------------
(* json.loads on a token span that starts with "{" *)

ParseFail == [ok |-> FALSE, val |-> EmptyMap, next |-> 0]

RECURSIVE ParseObject(_, _)
RECURSIVE ParseMembers(_, _, _)
RECURSIVE AfterMember(_, _, _)

\* an object starting at t[i]; next is the position after its closing brace
ParseObject(t, i) ==
    IF i > Len(t) \/ t[i] # "{" THEN ParseFail
    ELSE LET j == SkipWs(t, i + 1)
         IN IF j <= Len(t) /\ t[j] = "}"
            THEN [ok |-> TRUE, val |-> EmptyMap, next |-> j + 1]
            ELSE ParseMembers(t, j, EmptyMap)

\* a member starting at t[i]; a repeated key keeps its last value
ParseMembers(t, i, acc) ==
    IF i > Len(t) THEN ParseFail
    ELSE IF IsMemberTok(t[i])
    THEN AfterMember(t, SkipWs(t, i + 1),
                     Update(acc, MemberOf(t[i]).key :> MemberOf(t[i]).val))
    ELSE IF IsKeyTok(t[i])
    THEN LET o == ParseObject(t, SkipWs(t, i + 1))
         IN IF ~o.ok THEN ParseFail
            ELSE AfterMember(t, SkipWs(t, o.next),
                             Update(acc, KeyOf(t[i]) :> Obj(o.val)))
    ELSE ParseFail

AfterMember(t, i, acc) ==
    IF i > Len(t) THEN ParseFail
    ELSE IF t[i] = "}" THEN [ok |-> TRUE, val |-> acc, next |-> i + 1]
    ELSE IF t[i] = "," THEN ParseMembers(t, SkipWs(t, i + 1), acc)
    ELSE ParseFail

\* json.loads(span): the dict, or JSONDecodeError (also on trailing data)
json_loads(span) ==
    LET o == ParseObject(span, SkipWs(span, 1))
    IN IF o.ok /\ SkipWs(span, o.next) > Len(span)
       THEN Obj(o.val)
       ELSE Raise("JSONDecodeError")

----------------------------------------------------------------------------
(* _normalize_filter_format, agent.py:355-373 *)

\* s.replace(p, "")
RECURSIVE RemoveAll(_, _)
RemoveAll(s, p) ==
    IF Len(s) < Len(p) \/ Len(p) = 0 THEN s
    ELSE IF SubSeq(s, 1, Len(p)) = p
         THEN RemoveAll(SubSeq(s, Len(p) + 1, Len(s)), p)
         ELSE Char(s, 1) \o RemoveAll(SubSeq(s, 2, Len(s)), p)

\* s.strip()
RECURSIVE Strip(_)
Strip(s) ==
    IF Len(s) = 0 THEN s
    ELSE IF IsSpace(Char(s, 1)) THEN Strip(SubSeq(s, 2, Len(s)))
    ELSE IF IsSpace(Char(s, Len(s))) THEN Strip(SubSeq(s, 1, Len(s) - 1))
    ELSE s

\* the mapping m without key x
Without(m, x) == [y \in DOMAIN m \ {x} |-> m[y]]

\* _normalize_filter_format (agent.py:355-373)
_normalize_filter_format(m) ==
    IF DOMAIN m = {} THEN EmptyMap
    ELSE IF /\ "query" \in DOMAIN m
            /\ m["query"].k = "str"
            /\ Contains(m["query"].v, "author:")
    THEN "author" :> Str(Strip(RemoveAll(m["query"].v, "author:")))
    ELSE IF /\ "tags" \in DOMAIN m
            /\ m["tags"].k = "obj"
            /\ "$or" \in DOMAIN m["tags"].v
    THEN Update(m, "tags" :> Obj(Update(Without(m["tags"].v, "$or"),
                                        "$in" :> m["tags"].v["$or"])))
    ELSE m

----------------------------------------------------------------------------
(* _parse_response, agent.py:290-353 *)

\* re.search(r'<fence>(?:json)?\s*(\{.*?\})\s*<fence>', text, re.DOTALL):
\* the leftmost fence followed by an opening brace, and the nearest closing
\* brace that is followed by a fence; group(1) is t[a..b]
FencedSpan(t) ==
    LET open(i) == SkipWs(t, IF i + 1 <= Len(t) /\ t[i + 1] = "json"
                             THEN i + 2 ELSE i + 1)
        closes(i) == {b \in (open(i) + 1)..Len(t) :
                        /\ t[b] = "}"
                        /\ SkipWs(t, b + 1) <= Len(t)
                        /\ t[SkipWs(t, b + 1)] = FENCE}
        ok(i) == /\ t[i] = FENCE
                 /\ open(i) <= Len(t)
                 /\ t[open(i)] = "{"
                 /\ closes(i) # {}
        cands == {i \in 1..Len(t) : ok(i)}
        first == CHOOSE i \in cands : \A j \in cands : i <= j
        last == CHOOSE b \in closes(first) : \A c \in closes(first) : b <= c
    IN IF cands = {} THEN [found |-> FALSE, a |-> 0, b |-> 0]
       ELSE [found |-> TRUE, a |-> open(first), b |-> last]

\* text.find(x) and text.rfind(x), 1-based, 0 when absent
FindTok(t, x) ==
    LET at == {i \in 1..Len(t) : t[i] = x}
    IN IF at = {} THEN 0 ELSE CHOOSE i \in at : \A j \in at : i <= j
RFindTok(t, x) ==
    LET at == {i \in 1..Len(t) : t[i] = x}
    IN IF at = {} THEN 0 ELSE CHOOSE i \in at : \A j \in at : i >= j

\* [m.group() for m in re.finditer(r'\{[^}]*\}', text)] scanning from t[i]
RECURSIVE BraceSpans(_, _)
BraceSpans(t, i) ==
    LET opens == {a \in i..Len(t) : t[a] = "{"}
        a == CHOOSE x \in opens : \A y \in opens : x <= y
        ends == {b \in (a + 1)..Len(t) : t[b] = "}"}
        b == CHOOSE x \in ends : \A y \in ends : x <= y
    IN IF opens = {} THEN <<>>
       ELSE IF ends = {} THEN <<>>
       ELSE <<SubSeq(t, a, b)>> \o BraceSpans(t, b + 1)

\* agent.py:323-333: combined_filter and valid_objects after objects i..
RECURSIVE CombineFrom(_, _, _, _)
CombineFrom(objs, i, combined, valid) ==
    IF i > Len(objs) THEN [combined |-> combined, valid |-> valid]
    ELSE LET parsed == json_loads(objs[i])
         IN IF ~IsRaise(parsed) /\ DOMAIN parsed.v # {}
            THEN CombineFrom(objs, i + 1, Update(combined, parsed.v), valid + 1)
            ELSE CombineFrom(objs, i + 1, combined, valid)

\* agent.py:340-346: the first object that parses to a non-empty dict
FirstValid(objs) ==
    LET good == {i \in 1..Len(objs) :
                    ~IsRaise(json_loads(objs[i])) /\ DOMAIN json_loads(objs[i]).v # {}}
        first == CHOOSE i \in good : \A j \in good : i <= j
    IN IF good = {} THEN 0 ELSE first

\* agent.py:295-348, the body of the try block: the dict returned, or the
\* exception that leaves the block
ParseBody(t) ==
    LET fenced == FencedSpan(t)
        start_idx == FindTok(t, "{")
        end_idx == RFindTok(t, "}")
        json_objects == BraceSpans(t, 1)
        comb == CombineFrom(json_objects, 1, EmptyMap, 0)
    IN IF fenced.found
       THEN LET parsed == json_loads(SubSeq(t, fenced.a, fenced.b))
            IN IF IsRaise(parsed) THEN parsed
               ELSE Obj(_normalize_filter_format(parsed.v))
       ELSE IF start_idx > 0 /\ end_idx > start_idx
       THEN LET parsed == json_loads(SubSeq(t, start_idx, end_idx))
            IN IF IsRaise(parsed) THEN parsed
               ELSE Obj(_normalize_filter_format(parsed.v))
       ELSE IF /\ Len(json_objects) >= 2
               /\ comb.valid >= 2
               /\ DOMAIN comb.combined # {}
       THEN Obj(_normalize_filter_format(comb.combined))
       ELSE IF FirstValid(json_objects) > 0
       THEN Obj(_normalize_filter_format(
                    json_loads(json_objects[FirstValid(json_objects)]).v))
       ELSE Obj(EmptyMap)

\* the function without its except clause
ParseResponseUncaught(t) ==
    IF Len(t) = 0 \/ IsBlank(t) THEN Obj(EmptyMap) ELSE ParseBody(t)

\* _parse_response(response_text): except json.JSONDecodeError returns {}
_parse_response(t) ==
    IF Len(t) = 0 \/ IsBlank(t) THEN Obj(EmptyMap)
    ELSE IF IsRaise(ParseBody(t)) /\ ParseBody(t).v = "JSONDecodeError"
         THEN Obj(EmptyMap)
         ELSE ParseBody(t)

----------------------------------------------------------------------------
(* _validate_filter, agent.py:539-583 *)

RECURSIVE IntToStr(_)
IntToStr(n) ==
    IF n < 0 THEN "-" \o IntToStr(0 - n)
    ELSE IF n < 10 THEN Digits[n + 1]
    ELSE IntToStr(n \div 10) \o Digits[(n % 10) + 1]

\* ", ".join(repr(x) for x in l[i:]) for a list of strings
RECURSIVE ReprItems(_, _)
ReprItems(l, i) ==
    IF i > Len(l) THEN ""
    ELSE "'" \o l[i].v \o "'" \o (IF i < Len(l) THEN ", " ELSE "") \o ReprItems(l, i + 1)

\* str(value) for a value that is not a dict
PyStr(x) ==
    IF x.k = "str" THEN x.v
    ELSE IF x.k = "num" THEN IntToStr(x.v)
    ELSE IF x.k = "none" THEN "None"
    ELSE "[" \o ReprItems(x.v, 1) \o "]"

date_fields ==
    <<"publishedDate", "publishedTimestamp", "published_year",
      "published_month", "published_day">>

\* an author step that wraps every value in an $eq operator object
ValidatedAuthorWrap(m) ==
    IF "author" \notin DOMAIN m THEN EmptyMap
    ELSE "author" :> Obj("$eq" :> m["author"])

ValidatedAuthor(m) ==
    IF "author" \notin DOMAIN m THEN EmptyMap
    ELSE IF m["author"].k = "obj" THEN "author" :> m["author"]
    ELSE "author" :> Str(PyStr(m["author"]))

ValidatedTags(m) ==
    IF "tags" \notin DOMAIN m THEN EmptyMap
    ELSE IF m["tags"].k = "obj" THEN "tags" :> m["tags"]
    ELSE IF m["tags"].k = "list" THEN "tags" :> Obj("$in" :> m["tags"])
    ELSE IF m["tags"].k = "str" THEN "tags" :> m["tags"]
    ELSE EmptyMap

\* a date step that copies every field other than author and tags
ValidatedDatesKeepAll(m) ==
    [f \in DOMAIN m \ {"author", "tags"} |-> m[f]]

ValidatedDates(m) ==
    [f \in {date_fields[i] : i \in 1..Len(date_fields)} \cap DOMAIN m |-> m[f]]

\* a validator without the branch for root-level logical operators
ValidateNoPassThrough(m) ==
    IF DOMAIN m = {} THEN EmptyMap
    ELSE ValidatedDates(m) @@ ValidatedTags(m) @@ ValidatedAuthor(m)

_validate_filter(m) ==
    IF DOMAIN m = {} THEN EmptyMap
    ELSE IF "$and" \in DOMAIN m \/ "$or" \in DOMAIN m THEN m
    ELSE ValidatedDates(m) @@ ValidatedTags(m) @@ ValidatedAuthor(m)

----------------------------------------------------------------------------
(* Inputs *)

\* queries: opener, entity mentions joined by "and", author phrase, date phrase
Openers == {"posts about", "posts containing both", "IPL articles with both"}
EntityNames == {"Rohit Sharma", "Shubman Gill", "virat", "shikhar dhawan"}
AuthorPhrases == {"", " by Jane Doe", " by mary poppins", " by Akainu and Jane Doe"}
DatePhrases ==
    {"", " from last year", " this year", " from May", " from December 2024",
     " from last month", " from previous 15 days", " from previous 1000000 days",
     " from last week", " from 2024"}

EntityLists == UNION {[1..n -> EntityNames] : n \in 0..MaxEntities}

RECURSIVE JoinFrom(_, _)
JoinFrom(l, i) ==
    IF i > Len(l) THEN ""
    ELSE (IF i = 1 THEN " " ELSE " and ") \o l[i] \o JoinFrom(l, i + 1)

Queries ==
    {o \o JoinFrom(l, 1) \o a \o d :
        o \in Openers, l \in EntityLists, a \in AuthorPhrases, d \in DatePhrases}

\* queries of the date extractor: up to MaxPhrases date phrases in any order
RulePhrases ==
    {" from last year", " this year", " in 2025", " from May", " in december",
     " from December 2024", " from last month", " from previous 15 days",
     " from previous 1000000 days", " previous days", " from last week",
     " ipl2025", " from 2024", " from previous 0 days"}

PhraseLists == UNION {[1..n -> RulePhrases] : n \in 0..MaxPhrases}

RECURSIVE PhrasesFrom(_, _)
PhrasesFrom(l, i) == IF i > Len(l) THEN "" ELSE l[i] \o PhrasesFrom(l, i + 1)

DateQueries == {"articles" \o PhrasesFrom(l, 1) : l \in PhraseLists}

\* queries of whole requests: those of test_agent (agent.py:592-602) and of
\* the prompt's examples, and one with a large day count
PipelineQueries ==
    {"articles by Jane Doe",
     "posts about Rohit Sharma",
     "posts about Rohit Sharma and Shubman Gill",
     "posts containing both Rohit Sharma and Shubman Gill",
     "Shubman Gill articles from this year",
     "articles from previous 15 days",
     "articles from previous 1000000 days",
     "articles from 2024",
     "what is new"}

\* response texts: concatenations of segments
Segments ==
    { <<"{", "\"author\":\"A\"", "}">>,
      <<"{", "\"author\":\"B\"", ",", " ", "\"limit\":5", "}">>,
      <<"{", "\"tags\":\"#X\"", "}">>,
      <<"{", "\"tags\":", "{", "\"$or\":[\"#X\",\"#Y\"]", "}", "}">>,
      <<"{", "\"query\":\"author:Jane Doe\"", "}">>,
      <<"{", "prose", "}">>,
      <<"{", "}">>,
      <<FENCE, "json", " ">>,
      <<FENCE>>,
      <<FENCE, "{", "prose", "}", FENCE>>,
      <<"prose">>,
      <<" ">>,
      <<"{">>,
      <<"}">> }

SegmentLists == UNION {[1..n -> Segments] : n \in 0..MaxSegments}

RECURSIVE ConcatFrom(_, _)
ConcatFrom(l, i) == IF i > Len(l) THEN <<>> ELSE l[i] \o ConcatFrom(l, i + 1)

Texts == {ConcatFrom(l, 1) : l \in SegmentLists}

\* texts a provider returns in a whole request
PipelineTexts ==
    { <<>>,
      <<" ">>,
      <<"prose">>,
      <<"{", "prose", "}">>,
      <<"{", "\"author\":\"A\"", "}">>,
      <<"prose", FENCE, "json", " ", "{", "\"tags\":\"#X\"", "}", " ", FENCE>>,
      <<"{", "\"author\":\"A\"", "}", "{", "\"tags\":\"#X\"", "}">>,
      <<"{", "\"$and\":[]", "}">> }

\* keys of a JSON object a provider returns, each with the values it takes:
\* strings, numbers, null, lists and operator objects
FieldTable ==
    << [key |-> "author",
        vals |-> << Str("A"), Num(5), NoneValue, Obj("$ne" :> Str("A")),
                    Lst(<<Str("A"), Str("B")>>) >>],
       [key |-> "tags",
        vals |-> << Str("#X"), Lst(<<Str("#X"), Str("#Y")>>),
                    Obj("$in" :> Lst(<<Str("#X")>>)),
                    Obj("$or" :> Lst(<<Str("#X"), Str("#Y")>>)),
                    Obj("$regex" :> Str("#X")), Num(5), NoneValue >>],
       [key |-> "publishedTimestamp",
        vals |-> << DateRange(1704067200, 1735689600) >>],
       [key |-> "published_year", vals |-> << Num(2024) >>],
       [key |-> "limit", vals |-> << Num(5) >>],
       [key |-> "query", vals |-> << Str("author:Jane Doe"), Str("new posts"),
                    Str("posts author:Jane Doe") >>],
       [key |-> "$and",
        vals |-> << Lst(<<>>),
                    Lst(<<Obj("tags" :> Str("#X")), Obj("tags" :> Str("#Y"))>>) >>],
       [key |-> "$or",
        vals |-> << Lst(<<Obj("author" :> Str("A")), Obj("author" :> Str("B"))>>) >>] >>

\* a choice of at most MaxFields keys, and of one value for each
FieldPicks ==
    UNION {{c \in [K -> 1..7] : \A i \in K : c[i] <= Len(FieldTable[i].vals)} :
             K \in {S \in SUBSET (1..Len(FieldTable)) : Cardinality(S) <= MaxFields}}

\* the dict json.loads returns for the object with the chosen members
RawObject(c) ==
    [f \in {FieldTable[i].key : i \in DOMAIN c} |->
        LET i == CHOOSE j \in DOMAIN c : FieldTable[j].key = f
        IN FieldTable[i].vals[c[i]]]

\* what one chat.completions.create call and the read of its content do:
\* return a text, or raise (timeout, transport error, provider error)
ProviderOutcomes ==
    {[ok |-> TRUE, err |-> "", text |-> t] : t \in PipelineTexts}
    \cup {[ok |-> FALSE, err |-> e, text |-> <<>>] :
            e \in {"timeout", "transport", "provider"}}

\* a str value held in a variable
Text(t) == [k |-> "text", v |-> t]

----------------------------------------------------------------------------
(* _call_llm_with_fallback, agent.py:231-288 *)

free_models ==
    << "google/gemma-3n-e4b-it:free", "qwen/qwen3-8b:free",
       "mistralai/mistral-small-3.1-24b-instruct:free", "sarvamai/sarvam-m:free",
       "qwen/qwen3-4b:free", "deepseek/deepseek-v3-base:free",
       "deepseek/deepseek-r1-0528:free" >>

openai_model == "gpt-3.5-turbo"

\* position after entering the function (agent.py:238, 269)
ChainEntry(has_openrouter) ==
    IF has_openrouter THEN "llm_primary" ELSE "llm_secondary"

\* a loop that goes on to the next model after a successful call
PrimaryNextNoReturn(ok, idx) ==
    IF idx < Len(free_models) THEN "llm_primary" ELSE "llm_secondary"

\* a loop that gives up (returns None) at the first failing model
PrimaryNextGiveUp(ok, idx) == "llm_done"

\* a loop that leaves for the secondary provider at the first failing model
PrimaryNextSkipRest(ok, idx) == IF ok THEN "llm_done" ELSE "llm_secondary"

\* position after the call for free_models[idx]: return on success
\* (agent.py:260), next model or fall through on failure (agent.py:261-269)
PrimaryNext(ok, idx) ==
    IF ok THEN "llm_done"
    ELSE IF idx < Len(free_models) THEN "llm_primary" ELSE "llm_secondary"

\* agent.py:240-266: one iteration of the loop over free_models
CallPrimaryModel ==
    /\ pc = "llm_primary"
    /\ UNCHANGED apiVars
    /\ \E o \in ProviderOutcomes :
        /\ calls' = Append(calls, [provider |-> "openrouter",
                                   model |-> free_models[model_idx],
                                   ok |-> o.ok, text |-> o.text])
        /\ response_text' = IF o.ok THEN Text(o.text) ELSE response_text
        /\ model_idx' = model_idx + 1
        /\ pc' = PrimaryNext(o.ok, model_idx)
    /\ UNCHANGED <<query, openrouter_client, openai_client, caller, parsed_filter,
                   query_lower, filter_dict, player_tags, result>>

\* agent.py:269-288 with an OpenAI client: the single secondary attempt
CallSecondary ==
    /\ pc = "llm_secondary"
    /\ UNCHANGED apiVars
    /\ openai_client
    /\ \E o \in ProviderOutcomes :
        /\ calls' = Append(calls, [provider |-> "openai", model |-> openai_model,
                                   ok |-> o.ok, text |-> o.text])
        /\ response_text' = IF o.ok THEN Text(o.text) ELSE NoneValue
    /\ pc' = "llm_done"
    /\ UNCHANGED <<query, openrouter_client, openai_client, caller, model_idx,
                   parsed_filter, query_lower, filter_dict, player_tags, result>>

\* agent.py:269, 287-288 without an OpenAI client: return None
NoSecondary ==
    /\ pc = "llm_secondary"
    /\ UNCHANGED apiVars
    /\ ~openai_client
    /\ response_text' = NoneValue
    /\ pc' = "llm_done"
    /\ UNCHANGED <<query, openrouter_client, openai_client, caller, model_idx,
                   calls, parsed_filter, query_lower, filter_dict, player_tags,
                   result>>

----------------------------------------------------------------------------
(* generate_pinecone_filter, agent.py:56-87 *)

\* agent.py:66-71: build the prompt and enter the provider chain.  The prompt
\* is a fixed template around the query and is read by no later step.
StartGenerate ==
    /\ pc = "generate"
    /\ UNCHANGED apiVars
    /\ pc' = ChainEntry(openrouter_client)
    /\ UNCHANGED <<query, openrouter_client, openai_client, caller, model_idx,
                   calls, response_text, parsed_filter, query_lower, filter_dict,
                   player_tags, result>>

\* not response_text
IsFalsy(r) == r.k = "none" \/ Len(r.v) = 0

\* agent.py:73-79: None or "" goes to the rule-based extractor
CheckResponse ==
    /\ pc = "llm_done"
    /\ UNCHANGED apiVars
    /\ pc' = IF IsFalsy(response_text) THEN "x_author" ELSE "parse"
    /\ UNCHANGED <<query, openrouter_client, openai_client, caller, model_idx,
                   calls, response_text, parsed_filter, query_lower, filter_dict,
                   player_tags, result>>

\* where an exception raised at this point goes: from the try block into the
\* except clause, which calls _rule_based_extraction (agent.py:84-87);
\* from the except clause, or from a direct call, out to the caller
OnException(e) ==
    IF caller = "try"
    THEN /\ caller' = "except"
         /\ pc' = "x_author"
         /\ result' = result
    ELSE /\ caller' = caller
         /\ pc' = "raised"
         /\ result' = e

\* agent.py:79: filter_dict = self._parse_response(response_text)
ParseResponse ==
    /\ pc = "parse"
    /\ UNCHANGED apiVars
    /\ LET r == _parse_response(response_text.v)
       IN IF IsRaise(r)
          THEN /\ OnException(r)
               /\ UNCHANGED parsed_filter
          ELSE /\ parsed_filter' = r.v
               /\ pc' = "validate"
               /\ UNCHANGED <<caller, result>>
    /\ UNCHANGED <<query, openrouter_client, openai_client, model_idx, calls,
                   response_text, query_lower, filter_dict, player_tags>>

\* agent.py:82: return self._validate_filter(filter_dict)
ValidateFilter ==
    /\ pc = "validate"
    /\ UNCHANGED apiVars
    /\ result' = Obj(_validate_filter(parsed_filter))
    /\ pc' = "returned"
    /\ UNCHANGED <<query, openrouter_client, openai_client, caller, model_idx,
                   calls, response_text, parsed_filter, query_lower, filter_dict,
                   player_tags>>

\* agent.py:300-301, 308-309: the dict json.loads returned goes through
\* _normalize_filter_format
NormalizeParsed ==
    /\ pc = "normalize"
    /\ UNCHANGED apiVars
    /\ parsed_filter' = _normalize_filter_format(parsed_filter)
    /\ pc' = "validate"
    /\ UNCHANGED <<query, openrouter_client, openai_client, caller, model_idx,
                   calls, response_text, query_lower, filter_dict, player_tags,
                   result>>

----------------------------------------------------------------------------
(* _rule_based_extraction, step by step *)

\* agent.py:377-385
ExtractAuthor ==
    /\ pc = "x_author"
    /\ UNCHANGED apiVars
    /\ LET ql == Lower(query)
       IN /\ query_lower' = ql
          /\ filter_dict' = AuthorStep(ql)
    /\ player_tags' = <<>>
    /\ pc' = "x_tags"
    /\ UNCHANGED <<query, openrouter_client, openai_client, caller, model_idx,
                   calls, response_text, parsed_filter, result>>

\* agent.py:387-434
ExtractTags ==
    /\ pc = "x_tags"
    /\ UNCHANGED apiVars
    /\ LET tags == DetectPlayerTags(query_lower)
       IN /\ player_tags' = tags
          /\ filter_dict' = TagStep(query_lower, filter_dict, tags)
    /\ pc' = "x_date"
    /\ UNCHANGED <<query, openrouter_client, openai_client, caller, model_idx,
                   calls, response_text, parsed_filter, query_lower, result>>

\* agent.py:436-439
ExtractDate ==
    /\ pc = "x_date"
    /\ UNCHANGED apiVars
    /\ LET d == _extract_date_filter(query)
       IN IF IsRaise(d)
          THEN /\ OnException(d)
               /\ UNCHANGED filter_dict
          ELSE /\ filter_dict' = DateStep(filter_dict, d)
               /\ pc' = "x_return"
               /\ UNCHANGED <<caller, result>>
    /\ UNCHANGED <<query, openrouter_client, openai_client, model_idx, calls,
                   response_text, parsed_filter, query_lower, player_tags>>

\* agent.py:441
ExtractReturn ==
    /\ pc = "x_return"
    /\ UNCHANGED apiVars
    /\ result' = Obj(filter_dict)
    /\ pc' = "returned"
    /\ UNCHANGED <<query, openrouter_client, openai_client, caller, model_idx,
                   calls, response_text, parsed_filter, query_lower, filter_dict,
                   player_tags>>

----------------------------------------------------------------------------
(* SimplePineconeClient, src/src/pinecone_client.py *)

\* truth value of a Python value
Truthy(x) ==
    IF x.k = "none" THEN FALSE
    ELSE IF x.k = "obj" THEN DOMAIN x.v # {}
    ELSE IF x.k \in {"list", "str"} THEN Len(x.v) > 0
    ELSE IF x.k = "num" THEN x.v # 0
    ELSE TRUE

\* what the embedding tiers do in one call of generate_embedding: the OpenAI
\* client and the sentence transformer are absent, succeed or raise; the
\* text-hash embedding succeeds or raises (a text that cannot be encoded)
EmbeddingOutcomes ==
    [openai : {"absent", "ok", "fail"}, st : {"absent", "ok", "fail"},
     simple : {"ok", "fail"}]

\* one call of search to a collaborator: the operation, whether it returned,
\* the filter it was given and the matches it returned
ExternalCall(op, ok, f, got) == [op |-> op, ok |-> ok, filter |-> f, returned |-> got]

\* generate_embedding (pinecone_client.py:65-125): the calls made, and
\* whether a vector was returned (otherwise the exception leaves it)
generate_embedding(o) ==
    LET first == IF o.openai = "absent" THEN <<>>
                 ELSE <<ExternalCall("embeddings.create", o.openai = "ok", NoneValue, <<>>)>>
        second == IF o.st = "absent" THEN first
                  ELSE Append(first, ExternalCall("encode", o.st = "ok", NoneValue, <<>>))
        third == Append(second,
                        ExternalCall("_simple_text_embedding", o.simple = "ok", NoneValue, <<>>))
    IN IF o.openai = "ok" THEN [calls |-> first, ok |-> TRUE]
       ELSE IF o.st = "ok" THEN [calls |-> second, ok |-> TRUE]
       ELSE [calls |-> third, ok |-> o.simple = "ok"]

\* _convert_tag_filter (pinecone_client.py:160-180)
_convert_tag_filter(f) ==
    IF ~Truthy(f) \/ "tags" \notin DOMAIN f.v THEN f
    ELSE IF DOMAIN Without(f.v, "tags") = {} THEN NoneValue
    ELSE Obj(Without(f.v, "tags"))

\* matches the vector store returns: an id and the string-encoded tags of
\* the metadata
StoredMatches ==
    << [id |-> "a1", tags |-> "['#RohitSharma', '#MI']"],
       [id |-> "a2", tags |-> "['#ShubmanGill']"],
       [id |-> "a3", tags |-> ""] >>

\* what index.query does: returns a list of matches, or raises
QueryOutcomes ==
    << [ok |-> FALSE, matches |-> <<>>],
       [ok |-> TRUE, matches |-> <<>>],
       [ok |-> TRUE, matches |-> <<StoredMatches[1]>>],
       [ok |-> TRUE, matches |-> <<StoredMatches[2], StoredMatches[1]>>],
       [ok |-> TRUE, matches |-> <<StoredMatches[1], StoredMatches[2], StoredMatches[3]>>] >>

\* the items a for loop over x visits; a number or None is not iterable
IterItems(x) ==
    IF x.k = "list" THEN x.v
    ELSE IF x.k = "str" THEN [i \in 1..Len(x.v) |-> Str(Char(x.v, i))]
    ELSE IF x.k = "obj"
    THEN LET n == Cardinality(DOMAIN x.v)
             order == CHOOSE g \in [1..n -> DOMAIN x.v] :
                         \A a, b \in 1..n : a # b => g[a] # g[b]
         IN [i \in 1..n |-> Str(order[i])]
    ELSE <<>>

\* for tag in items: if tag in tags_str: ... break   from item i on:
\* "hit", "miss", or "raise" (TypeError of  in  with a non-string tag)
RECURSIVE AnyTagIn(_, _, _)
AnyTagIn(items, i, tags_str) ==
    IF i > Len(items) THEN "miss"
    ELSE IF items[i].k # "str" THEN "raise"
    ELSE IF Contains(tags_str, items[i].v) THEN "hit"
    ELSE AnyTagIn(items, i + 1, tags_str)

\* the loop over an operand: TypeError when it is not iterable
AnyTag(x, tags_str) ==
    IF x.k \in {"num", "none"} THEN "raise"
    ELSE AnyTagIn(IterItems(x), 1, tags_str)

\* operand in tags_str
TagHit(x, tags_str) ==
    IF x.k # "str" THEN "raise"
    ELSE IF Contains(tags_str, x.v) THEN "hit" ELSE "miss"

\* one iteration of the loop of _filter_by_tags (pinecone_client.py:300-345):
\* "keep", "drop" or "raise"
KeepMatch(tags_str, tf) ==
    LET keepIf(r, want) == IF r = "raise" THEN "raise"
                           ELSE IF r = want THEN "keep" ELSE "drop"
    IN IF tf.k = "str" THEN keepIf(TagHit(tf, tags_str), "hit")
       ELSE IF tf.k = "obj"
       THEN IF "$or" \in DOMAIN tf.v THEN keepIf(AnyTag(tf.v["$or"], tags_str), "hit")
            ELSE IF "$in" \in DOMAIN tf.v THEN keepIf(AnyTag(tf.v["$in"], tags_str), "hit")
            ELSE IF "$nin" \in DOMAIN tf.v THEN keepIf(AnyTag(tf.v["$nin"], tags_str), "miss")
            ELSE IF "$eq" \in DOMAIN tf.v THEN keepIf(TagHit(tf.v["$eq"], tags_str), "hit")
            ELSE IF "$ne" \in DOMAIN tf.v THEN keepIf(TagHit(tf.v["$ne"], tags_str), "miss")
            ELSE "drop"
       ELSE IF tf.k = "list" THEN keepIf(AnyTag(tf, tags_str), "hit")
       ELSE "drop"

\* the matches from position i on that the loop keeps
RECURSIVE KeptFrom(_, _, _)
KeptFrom(matches, i, tf) ==
    IF i > Len(matches) THEN <<>>
    ELSE IF KeepMatch(matches[i].tags, tf) = "keep"
         THEN <<matches[i]>> \o KeptFrom(matches, i + 1, tf)
         ELSE KeptFrom(matches, i + 1, tf)

\* a tag post-filter that keeps every match
FilterByTagsKeepAll(matches, tf) == [ok |-> TRUE, matches |-> matches]

\* _filter_by_tags (pinecone_client.py:284-347): the filtered list, or the
\* TypeError raised in the loop
_filter_by_tags(matches, tf) ==
    IF Len(matches) = 0 \/ ~Truthy(tf) THEN [ok |-> TRUE, matches |-> matches]
    ELSE IF \E i \in 1..Len(matches) : KeepMatch(matches[i].tags, tf) = "raise"
    THEN [ok |-> FALSE, matches |-> <<>>]
    ELSE [ok |-> TRUE, matches |-> KeptFrom(matches, 1, tf)]

\* the dict search returns on success (pinecone_client.py:268-277)
SearchResult(matches, f) ==
    ("matches" :> matches) @@ ("total_count" :> Len(matches))
    @@ ("filter_applied" :> f) @@ ("performance" :> "timings")

\* what one call of search gives: raised with the exception class, or
\* returned with the dict; calls are the collaborator calls it made
Returned(value, made) == [raised |-> FALSE, err |-> "", value |-> value, calls |-> made]
Raised(err, made) == [raised |-> TRUE, err |-> err, value |-> <<>>, calls |-> made]

\* the try block of search (pinecone_client.py:197-277)
SearchBody(f, emb, qo) ==
    LET e == generate_embedding(emb)
        converted_filter == IF Truthy(f) THEN _convert_tag_filter(f) ELSE NoneValue
        queried == Append(e.calls, ExternalCall("index.query", qo.ok, converted_filter,
                                                qo.matches))
        post == IF Truthy(f) /\ "tags" \in DOMAIN f.v
                THEN _filter_by_tags(qo.matches, f.v["tags"])
                ELSE [ok |-> TRUE, matches |-> qo.matches]
    IN IF ~e.ok THEN Raised("UnicodeEncodeError", e.calls)
       ELSE IF ~qo.ok THEN Raised("PineconeException", queried)
       ELSE IF ~post.ok THEN Raised("TypeError", queried)
       ELSE Returned(SearchResult(post.matches, f), queried)

\* a search whose try block has no except clause
SearchUncaught(connected, f, emb, qo) ==
    IF ~connected
    THEN Returned(("matches" :> <<>>) @@ ("error" :> "Not connected to Pinecone"), <<>>)
    ELSE SearchBody(f, emb, qo)

\* a search that generates the embedding before it looks at the index
SearchEmbedFirst(connected, f, emb, qo) ==
    LET e == generate_embedding(emb)
    IN IF ~connected
       THEN Returned(("matches" :> <<>>) @@ ("error" :> "Not connected to Pinecone"),
                     e.calls)
       ELSE LET b == SearchBody(f, emb, qo)
            IN IF b.raised
               THEN Returned(("matches" :> <<>>) @@ ("error" :> b.err)
                             @@ ("error_time" :> "elapsed"), b.calls)
               ELSE b

\* search (pinecone_client.py:182-282)
search(connected, f, emb, qo) ==
    IF ~connected
    THEN Returned(("matches" :> <<>>) @@ ("error" :> "Not connected to Pinecone"), <<>>)
    ELSE LET b == SearchBody(f, emb, qo)
         IN IF b.raised
            THEN Returned(("matches" :> <<>>) @@ ("error" :> b.err)
                          @@ ("error_time" :> "elapsed"), b.calls)
            ELSE b

\* the caller's filter_dict after a call of search: search tests and reads
\* it (pinecone_client.py:194-252), _convert_tag_filter builds a new dict
\* from its items (pinecone_client.py:178) and _filter_by_tags reads its
\* tags value; no statement assigns to it or deletes from it
filter_dict_after(connected, f) == f

\* one call of search, for every behaviour of its collaborators
Search ==
    /\ pc = "search"
    /\ UNCHANGED parked
    /\ \E emb \in EmbeddingOutcomes, q \in 1..Len(QueryOutcomes) :
         LET r == search(index, search_filter, emb, QueryOutcomes[q])
         IN /\ external' = r.calls
            /\ search_results' = IF r.raised THEN Raise(r.err) ELSE r.value
            /\ search_filter' = filter_dict_after(index, search_filter)
            /\ pc' = IF r.raised THEN "search_raised"
                     ELSE IF endpoint = "query" THEN "respond"
                     ELSE IF endpoint = "api_query" THEN "pq_respond"
                     ELSE "search_returned"
    /\ UNCHANGED <<query, openrouter_client, openai_client, caller, model_idx,
                   calls, response_text, parsed_filter, query_lower, filter_dict,
                   player_tags, result, endpoint, index, response>>

----------------------------------------------------------------------------
(* query_and_search, src/src/api.py:107-140 *)

\* QueryResponse(...)
QueryResponse(q, f, sr, success, error) ==
    [query |-> q, filter |-> f, search_results |-> sr, success |-> success,
     error |-> error]

\* api.py:115-124: the filter is generated; search is called when the index
\* is connected
QuerySearchStep ==
    /\ pc = "returned"
    /\ UNCHANGED parked
    /\ endpoint = "query"
    /\ search_filter' = result
    /\ pc' = IF index THEN "search" ELSE "respond"
    /\ UNCHANGED <<query, openrouter_client, openai_client, caller, model_idx,
                   calls, response_text, parsed_filter, query_lower, filter_dict,
                   player_tags, result, endpoint, index, external,
                   search_results, response>>

\* api.py:126-131
QueryRespond ==
    /\ pc = "respond"
    /\ UNCHANGED parked
    /\ response' = QueryResponse(query, search_filter, search_results, TRUE, NoneValue)
    /\ pc' = "responded"
    /\ UNCHANGED <<query, openrouter_client, openai_client, caller, model_idx,
                   calls, response_text, parsed_filter, query_lower, filter_dict,
                   player_tags, result, endpoint, index, search_filter, external,
                   search_results>>

\* api.py:133-140: an exception of the try block gives the error response
QueryFailed ==
    /\ pc \in {"raised", "search_raised"}
    /\ UNCHANGED parked
    /\ endpoint = "query"
    /\ response' = QueryResponse(query, Obj(EmptyMap), NoneValue, FALSE,
                                 IF pc = "raised" THEN result ELSE search_results)
    /\ pc' = "responded"
    /\ UNCHANGED <<query, openrouter_client, openai_client, caller, model_idx,
                   calls, response_text, parsed_filter, query_lower, filter_dict,
                   player_tags, result, endpoint, index, search_filter, external,
                   search_results>>

----------------------------------------------------------------------------
(* process_query, src/fastapi_app.py:90-189 *)

\* an HTTP response: the status code, the detail of an error response and
\* the fields of QueryResponse
HttpResponse(status, detail, q, f, sr) ==
    [status |-> status, detail |-> detail, query |-> q, filter |-> f,
     search_results |-> sr]

\* fastapi_app.py:102-106: inside the try block, a query that is empty after
\* strip() raises HTTPException(400); any other query goes on to
\* generate_pinecone_filter (fastapi_app.py:118)
ProcessQueryValidate ==
    /\ pc = "pq_validate"
    /\ UNCHANGED parked
    /\ endpoint = "api_query"
    /\ IF Strip(query) = ""
       THEN /\ response' = Raise("HTTPException(400)")
            /\ pc' = "pq_raised"
       ELSE /\ response' = response
            /\ pc' = "generate"
    /\ UNCHANGED <<query, openrouter_client, openai_client, caller, model_idx,
                   calls, response_text, parsed_filter, query_lower, filter_dict,
                   player_tags, result, endpoint, index, search_filter, external,
                   search_results>>

\* fastapi_app.py:118-129: the generated filter is handed to client.search
ProcessQuerySearch ==
    /\ pc = "returned"
    /\ UNCHANGED parked
    /\ endpoint = "api_query"
    /\ search_filter' = result
    /\ pc' = "search"
    /\ UNCHANGED <<query, openrouter_client, openai_client, caller, model_idx,
                   calls, response_text, parsed_filter, query_lower, filter_dict,
                   player_tags, result, endpoint, index, external, search_results,
                   response>>

\* fastapi_app.py:177-182: the response of a request that got through
ProcessQueryRespond ==
    /\ pc = "pq_respond"
    /\ UNCHANGED parked
    /\ response' = HttpResponse(200, "", query, search_filter, search_results)
    /\ pc' = "pq_responded"
    /\ UNCHANGED <<query, openrouter_client, openai_client, caller, model_idx,
                   calls, response_text, parsed_filter, query_lower, filter_dict,
                   player_tags, result, endpoint, index, search_filter, external,
                   search_results>>

\* fastapi_app.py:184-189: except Exception catches whatever the try block
\* raised, the HTTPException of the validation included, and raises
\* HTTPException(500) with the caught exception in its detail
ProcessQueryExcept ==
    /\ pc \in {"pq_raised", "raised", "search_raised"}
    /\ UNCHANGED parked
    /\ endpoint = "api_query"
    /\ response' = HttpResponse(500,
                                IF pc = "pq_raised" THEN response.v
                                ELSE IF pc = "raised" THEN result.v
                                ELSE search_results.v,
                                NoneValue, NoneValue, NoneValue)
    /\ pc' = "pq_responded"
    /\ UNCHANGED <<query, openrouter_client, openai_client, caller, model_idx,
                   calls, response_text, parsed_filter, query_lower, filter_dict,
                   player_tags, result, endpoint, index, search_filter, external,
                   search_results>>

----------------------------------------------------------------------------
(* Two requests to one agent *)

\* the names a call of generate_pinecone_filter and its callees assign: its
\* parameter and their locals (agent.py:56-537); none is an attribute of the
\* agent
RequestLocals ==
    [query |-> query, pc |-> pc, caller |-> caller, model_idx |-> model_idx,
     calls |-> calls, response_text |-> response_text,
     parsed_filter |-> parsed_filter, query_lower |-> query_lower,
     filter_dict |-> filter_dict, player_tags |-> player_tags, result |-> result]

\* a response_text and filter_dict kept on the agent object: a request that
\* runs again finds what the other request left there
ResumeShared(own, other) == other

\* the value of response_text and filter_dict (agent.py:70, 79) when their
\* request runs again: they are locals of its own call, so its own value,
\* whatever the other request assigned meanwhile
Resume(own, other) == own

\* the running request stops between two steps and the other one runs on
Switch ==
    /\ parked.k = "frame"
    /\ parked.v.pc \notin {"returned", "raised"}
    /\ parked' = [k |-> "frame", v |-> RequestLocals]
    /\ query' = parked.v.query
    /\ pc' = parked.v.pc
    /\ caller' = parked.v.caller
    /\ model_idx' = parked.v.model_idx
    /\ calls' = parked.v.calls
    /\ response_text' = Resume(parked.v.response_text, response_text)
    /\ parsed_filter' = Resume(parked.v.parsed_filter, parsed_filter)
    /\ query_lower' = parked.v.query_lower
    /\ filter_dict' = parked.v.filter_dict
    /\ player_tags' = parked.v.player_tags
    /\ result' = parked.v.result
    /\ UNCHANGED <<openrouter_client, openai_client, endpoint, index, search_filter,
                   external, search_results, response>>

\* the text _call_llm_with_fallback returns for the calls of a request
\* (agent.py:260, 282, 288)
ChainText(cs) ==
    IF Len(cs) > 0 /\ cs[Len(cs)].ok THEN Text(cs[Len(cs)].text) ELSE NoneValue

\* generate_pinecone_filter (agent.py:66-87) as a function of the query and
\* of the text the provider chain returned: the filter, or the exception
\* that leaves the except clause
generate_pinecone_filter(q, text) ==
    IF IsFalsy(text) THEN _rule_based_extraction(q)
    ELSE LET r == _parse_response(text.v)
         IN IF IsRaise(r) THEN _rule_based_extraction(q)
            ELSE Obj(_validate_filter(r.v))

----------------------------------------------------------------------------
(* Specifications *)

\* no request outside the agent
ApiIdle ==
    /\ endpoint = "none"
    /\ index = FALSE
    /\ search_filter = NoneValue
    /\ external = <<>>
    /\ search_results = NoneValue
    /\ response = NoneValue
    /\ parked = NoneValue

Locals ==
    /\ model_idx = 1
    /\ calls = <<>>
    /\ response_text = NoneValue
    /\ parsed_filter = EmptyMap
    /\ query_lower = ""
    /\ filter_dict = EmptyMap
    /\ player_tags = <<>>
    /\ result = NoneValue
    /\ ApiIdle

\* one request to generate_pinecone_filter, for every client configuration
Init ==
    /\ query \in PipelineQueries
    /\ openrouter_client \in BOOLEAN
    /\ openai_client \in BOOLEAN
    /\ pc = "generate"
    /\ caller = "try"
    /\ Locals

Next ==
    \/ StartGenerate
    \/ CallPrimaryModel
    \/ CallSecondary
    \/ NoSecondary
    \/ CheckResponse
    \/ ParseResponse
    \/ ValidateFilter
    \/ ExtractAuthor
    \/ ExtractTags
    \/ ExtractDate
    \/ ExtractReturn

Spec == Init /\ [][Next]_vars

\* one direct call of _rule_based_extraction, for every generated query
InitExtract ==
    /\ query \in Queries
    /\ openrouter_client = FALSE
    /\ openai_client = FALSE
    /\ pc = "x_author"
    /\ caller = "direct"
    /\ Locals

NextExtract ==
    \/ ExtractAuthor
    \/ ExtractTags
    \/ ExtractDate
    \/ ExtractReturn

SpecExtract == InitExtract /\ [][NextExtract]_vars

\* one direct call of _parse_response followed by _validate_filter, for every
\* generated response text
InitParse ==
    /\ query = ""
    /\ openrouter_client = FALSE
    /\ openai_client = FALSE
    /\ pc = "parse"
    /\ caller = "direct"
    /\ model_idx = 1
    /\ calls = <<>>
    /\ response_text \in {Text(t) : t \in Texts}
    /\ parsed_filter = EmptyMap
    /\ query_lower = ""
    /\ filter_dict = EmptyMap
    /\ player_tags = <<>>
    /\ result = NoneValue
    /\ ApiIdle

NextParse ==
    \/ ParseResponse
    \/ ValidateFilter

SpecParse == InitParse /\ [][NextParse]_vars

\* one direct call of _rule_based_extraction, for every query of the date
\* extractor
InitDate ==
    /\ query \in DateQueries
    /\ openrouter_client = FALSE
    /\ openai_client = FALSE
    /\ pc = "x_author"
    /\ caller = "direct"
    /\ Locals

SpecDate == InitDate /\ [][NextExtract]_vars

\* one JSON object decoded from a provider text, normalized and validated
InitValidate ==
    /\ query = ""
    /\ openrouter_client = FALSE
    /\ openai_client = FALSE
    /\ pc = "normalize"
    /\ caller = "direct"
    /\ model_idx = 1
    /\ calls = <<>>
    /\ response_text = NoneValue
    /\ \E c \in FieldPicks : parsed_filter = RawObject(c)
    /\ query_lower = ""
    /\ filter_dict = EmptyMap
    /\ player_tags = <<>>
    /\ result = NoneValue
    /\ ApiIdle

NextValidate ==
    \/ NormalizeParsed
    \/ ValidateFilter

SpecValidate == InitValidate /\ [][NextValidate]_vars

\* filters handed to search by a caller other than query_and_search
DirectFilters ==
    << NoneValue,
       Obj(EmptyMap),
       Obj("author" :> Str("Jane Doe")),
       Obj("tags" :> Str("#RohitSharma")),
       Obj(("author" :> Str("Jane Doe")) @@ ("tags" :> Obj("$in" :>
            Lst(<<Str("#ShubmanGill"), Str("#MI")>>)))),
       Obj("tags" :> Obj("$nin" :> Lst(<<Str("#MI")>>))),
       Obj("tags" :> Obj("$eq" :> Str("#MI"))),
       Obj("tags" :> Obj("$ne" :> Str("#MI"))),
       Obj("tags" :> Obj("$or" :> Lst(<<Str("#X"), Str("#ShubmanGill")>>))),
       Obj("tags" :> Lst(<<Str("#X"), Str("#RohitSharma")>>)),
       Obj("tags" :> Obj("$in" :> Lst(<<Num(5)>>))),
       Obj("tags" :> Obj("$regex" :> Str("#MI"))),
       Obj("tags" :> Lst(<<>>)),
       Obj("tags" :> Obj("$in" :> Lst(<<>>))),
       Obj(("author" :> Str("Jane Doe")) @@ ("tags" :> Str(""))),
       Obj("$and" :> Lst(<<Obj("tags" :> Str("#RohitSharma")),
                           Obj("tags" :> Str("#MI"))>>)) >>

\* one request to /query, for every client configuration and every state of
\* the index connection
InitQuery ==
    /\ query \in PipelineQueries
    /\ openrouter_client \in BOOLEAN
    /\ openai_client \in BOOLEAN
    /\ pc = "generate"
    /\ caller = "try"
    /\ model_idx = 1
    /\ calls = <<>>
    /\ response_text = NoneValue
    /\ parsed_filter = EmptyMap
    /\ query_lower = ""
    /\ filter_dict = EmptyMap
    /\ player_tags = <<>>
    /\ result = NoneValue
    /\ endpoint = "query"
    /\ index \in BOOLEAN
    /\ search_filter = NoneValue
    /\ external = <<>>
    /\ search_results = NoneValue
    /\ response = NoneValue
    /\ parked = NoneValue

\* one direct call of search (test_pinecone_search, pinecone_client.py:397)
InitSearch ==
    /\ query \in PipelineQueries
    /\ openrouter_client = FALSE
    /\ openai_client = FALSE
    /\ pc = "search"
    /\ caller = "direct"
    /\ model_idx = 1
    /\ calls = <<>>
    /\ response_text = NoneValue
    /\ parsed_filter = EmptyMap
    /\ query_lower = ""
    /\ filter_dict = EmptyMap
    /\ player_tags = <<>>
    /\ result = NoneValue
    /\ endpoint = "search"
    /\ index \in BOOLEAN
    /\ \E i \in 1..Len(DirectFilters) : search_filter = DirectFilters[i]
    /\ external = <<>>
    /\ search_results = NoneValue
    /\ response = NoneValue
    /\ parked = NoneValue

InitApi == InitQuery \/ InitSearch

NextApi ==
    \/ StartGenerate
    \/ CallPrimaryModel
    \/ CallSecondary
    \/ NoSecondary
    \/ CheckResponse
    \/ ParseResponse
    \/ ValidateFilter
    \/ ExtractAuthor
    \/ ExtractTags
    \/ ExtractDate
    \/ ExtractReturn
    \/ QuerySearchStep
    \/ Search
    \/ QueryRespond
    \/ QueryFailed

SpecApi == InitApi /\ [][NextApi]_vars

\* the query strings of requests: those of whole requests, the empty string
\* and a blank one
RequestQueries == PipelineQueries \cup {"", "  "}

\* one POST /api/query of fastapi_app.py; the application starts only with a
\* connected index (fastapi_app.py:51-56)
InitProcessQuery ==
    /\ query \in RequestQueries
    /\ openrouter_client \in BOOLEAN
    /\ openai_client \in BOOLEAN
    /\ pc = "pq_validate"
    /\ caller = "try"
    /\ model_idx = 1
    /\ calls = <<>>
    /\ response_text = NoneValue
    /\ parsed_filter = EmptyMap
    /\ query_lower = ""
    /\ filter_dict = EmptyMap
    /\ player_tags = <<>>
    /\ result = NoneValue
    /\ endpoint = "api_query"
    /\ index = TRUE
    /\ search_filter = NoneValue
    /\ external = <<>>
    /\ search_results = NoneValue
    /\ response = NoneValue
    /\ parked = NoneValue

\* one POST /query of api.py (api.py:107-115), for every request query
InitQueryRequest ==
    /\ query \in RequestQueries
    /\ openrouter_client \in BOOLEAN
    /\ openai_client \in BOOLEAN
    /\ pc = "generate"
    /\ caller = "try"
    /\ model_idx = 1
    /\ calls = <<>>
    /\ response_text = NoneValue
    /\ parsed_filter = EmptyMap
    /\ query_lower = ""
    /\ filter_dict = EmptyMap
    /\ player_tags = <<>>
    /\ result = NoneValue
    /\ endpoint = "query"
    /\ index \in BOOLEAN
    /\ search_filter = NoneValue
    /\ external = <<>>
    /\ search_results = NoneValue
    /\ response = NoneValue
    /\ parked = NoneValue

InitRequests == InitProcessQuery \/ InitQueryRequest

NextRequests ==
    \/ StartGenerate
    \/ CallPrimaryModel
    \/ CallSecondary
    \/ NoSecondary
    \/ CheckResponse
    \/ ParseResponse
    \/ ValidateFilter
    \/ ExtractAuthor
    \/ ExtractTags
    \/ ExtractDate
    \/ ExtractReturn
    \/ QuerySearchStep
    \/ Search
    \/ QueryRespond
    \/ QueryFailed
    \/ ProcessQueryValidate
    \/ ProcessQuerySearch
    \/ ProcessQueryRespond
    \/ ProcessQueryExcept

SpecRequests == InitRequests /\ [][NextRequests]_vars

\* the queries of two requests in flight at once
ConcurrentQueries ==
    {"posts about Rohit Sharma and Shubman Gill",
     "articles from previous 1000000 days"}

\* two requests to generate_pinecone_filter on one agent, both at their
\* entry; one runs, the other is parked
InitConcurrent ==
    /\ query \in ConcurrentQueries
    /\ openrouter_client \in BOOLEAN
    /\ openai_client \in BOOLEAN
    /\ pc = "generate"
    /\ caller = "try"
    /\ model_idx = 1
    /\ calls = <<>>
    /\ response_text = NoneValue
    /\ parsed_filter = EmptyMap
    /\ query_lower = ""
    /\ filter_dict = EmptyMap
    /\ player_tags = <<>>
    /\ result = NoneValue
    /\ endpoint = "none"
    /\ index = FALSE
    /\ search_filter = NoneValue
    /\ external = <<>>
    /\ search_results = NoneValue
    /\ response = NoneValue
    /\ \E q \in ConcurrentQueries :
          parked = [k |-> "frame",
                    v |-> [query |-> q, pc |-> "generate", caller |-> "try",
                           model_idx |-> 1, calls |-> <<>>,
                           response_text |-> NoneValue, parsed_filter |-> EmptyMap,
                           query_lower |-> "", filter_dict |-> EmptyMap,
                           player_tags |-> <<>>, result |-> NoneValue]]

NextConcurrent ==
    \/ StartGenerate
    \/ CallPrimaryModel
    \/ CallSecondary
    \/ NoSecondary
    \/ CheckResponse
    \/ ParseResponse
    \/ ValidateFilter
    \/ ExtractAuthor
    \/ ExtractTags
    \/ ExtractDate
    \/ ExtractReturn
    \/ Switch

SpecConcurrent == InitConcurrent /\ [][NextConcurrent]_vars

----------------------------------------------------------------------------
(* Properties *)

\* equality of two tagged values, kind first
RECURSIVE SameValue(_, _)
SameValue(x, y) ==
    /\ x.k = y.k
    /\ IF x.k = "obj"
       THEN /\ DOMAIN x.v = DOMAIN y.v
            /\ \A f \in DOMAIN x.v : SameValue(x.v[f], y.v[f])
       ELSE IF x.k \in {"list", "text"}
       THEN /\ Len(x.v) = Len(y.v)
            /\ \A i \in 1..Len(x.v) :
                 IF x.k = "list" THEN SameValue(x.v[i], y.v[i]) ELSE x.v[i] = y.v[i]
       ELSE x.v = y.v

\* the request is over: its entry operation returned or raised
Finished == pc \in {"returned", "raised"}

\* no provider call of the request completed without error
NoCallSucceeded == \A i \in 1..Len(calls) : ~calls[i].ok

\* the number of candidates the agent is configured with
Candidates ==
    (IF openrouter_client THEN Len(free_models) ELSE 0)
    + (IF openai_client THEN 1 ELSE 0)

\* the provider chain has returned to generate_pinecone_filter
ChainReturned == pc \notin {"generate", "llm_primary", "llm_secondary"}

\* C1: for every query and every combination of provider outcomes,
\* generate_pinecone_filter returns a filter mapping and never raises.
C1_AlwaysReturnsFilter ==
    /\ pc # "raised"
    /\ pc = "returned" => result.k = "obj"

\* C2: once a provider call has returned a non-error response no further
\* provider call is issued in the request: a successful call is the last call,
\* and the chain is left as soon as it is made.
C2_AtMostOneSuccessfulCall ==
    /\ \A i \in 1..Len(calls) : calls[i].ok => i = Len(calls)
    /\ ~NoCallSucceeded => ChainReturned

C2_Witness ==
    /\ pc = "returned"
    /\ openai_client
    /\ Len(calls) \in 2..(Len(free_models) - 1)
    /\ calls[Len(calls)].ok
    /\ \A i \in 1..(Len(calls) - 1) : ~calls[i].ok

\* C3: _call_llm_with_fallback returns None only when every configured
\* candidate (each primary model in list order, then the secondary provider)
\* was called and failed; when some call completed without error the result
\* is that call's text and is not None.
C3_NullOnlyWhenAllFail ==
    ChainReturned =>
        /\ response_text.k = "none" =>
            /\ NoCallSucceeded
            /\ Len(calls) = Candidates
            /\ \A i \in 1..Len(calls) :
                 IF openrouter_client /\ i <= Len(free_models)
                 THEN calls[i].provider = "openrouter" /\ calls[i].model = free_models[i]
                 ELSE calls[i].provider = "openai"
        /\ \A i \in 1..Len(calls) :
             calls[i].ok => response_text.k = "text" /\ response_text.v = calls[i].text

C3_Witness ==
    /\ pc = "llm_done"
    /\ openrouter_client /\ openai_client
    /\ response_text.k = "none"
    /\ Len(calls) = Len(free_models) + 1

\* C4: when every provider candidate fails or none is configured, the filter
\* returned by generate_pinecone_filter is the rule-based extraction of the
\* same query and not an error; with all providers failing,
\* "posts about Rohit Sharma" yields {"tags": "#RohitSharma"}.
C4_AllFailGivesRuleBased ==
    (Finished /\ NoCallSucceeded) =>
        /\ result.k = "obj"
        /\ SameValue(result, _rule_based_extraction(query))
        /\ query = "posts about Rohit Sharma"
             => SameValue(result, Obj("tags" :> Str("#RohitSharma")))

\* C5: when a provider returns a text from which the normalizer parses no
\* JSON object (it yields the empty mapping), the returned filter is the
\* rule-based extraction of the query, as when no provider produced output.
C5_UnparseableGivesRuleBased ==
    (/\ Finished
     /\ response_text.k = "text"
     /\ Len(response_text.v) > 0
     /\ DOMAIN _parse_response(response_text.v).v = {})
        => SameValue(result, _rule_based_extraction(query))

\* C6: _rule_based_extraction always succeeds: for every query, also for any
\* N in "previous N days", it returns a filter and never raises.
C6_ExtractorAlwaysSucceeds ==
    Finished => (pc = "returned" /\ result.k = "obj")

\* the brace-delimited spans of a text that parse on their own as JSON
\* objects with at least one key
ParseableSpans(t) ==
    {i \in 1..Len(BraceSpans(t, 1)) :
        /\ ~IsRaise(json_loads(BraceSpans(t, 1)[i]))
        /\ DOMAIN json_loads(BraceSpans(t, 1)[i]).v # {}}

\* the last parseable span of t that has key f
LastSpanWith(t, f) ==
    LET has == {i \in ParseableSpans(t) : f \in DOMAIN json_loads(BraceSpans(t, 1)[i]).v}
    IN CHOOSE i \in has : \A j \in has : i >= j

\* C7: a text without code fence that is a concatenation of two or more
\* independently parseable brace-delimited objects normalizes to one mapping
\* whose keys are the union of the objects' keys, the later object winning on
\* a shared key.
C7_ConcatenatedObjectsMerged ==
    LET t == response_text.v
        spans == BraceSpans(t, 1)
    IN (/\ pc = "validate"
        /\ FindTok(t, FENCE) = 0
        /\ Len(spans) >= 2
        /\ ParseableSpans(t) = 1..Len(spans)
        /\ t = ConcatFrom(spans, 1))
       => /\ DOMAIN parsed_filter = UNION {DOMAIN json_loads(spans[i]).v : i \in 1..Len(spans)}
          /\ \A f \in DOMAIN parsed_filter :
               SameValue(parsed_filter[f], json_loads(spans[LastSpanWith(t, f)]).v[f])

\* no contiguous span of the text is a JSON object
NothingParses(t) ==
    \A a \in 1..Len(t) : \A b \in a..Len(t) : IsRaise(json_loads(SubSeq(t, a, b)))

\* C8: _parse_response never raises to its caller, and returns the empty
\* mapping when nothing in the text parses.
C8_NormalizerNeverRaises ==
    /\ pc # "raised"
    /\ (pc \in {"validate", "returned"} /\ NothingParses(response_text.v))
         => DOMAIN parsed_filter = {}

C8_Witness ==
    /\ pc = "validate"
    /\ FindTok(response_text.v, "{") > 0
    /\ RFindTok(response_text.v, "}") > FindTok(response_text.v, "{")
    /\ NothingParses(response_text.v)
    /\ DOMAIN parsed_filter = {}

\* the players a query mentions, by full name or short form
Mentioned(ql) == {i \in 1..Len(PlayerTable) : Contains(ql, PlayerTable[i].short)}

\* the AND-indicator phrases
HasAndPhrase(ql) ==
    \E ph \in {"containing both", "with both", "having both", "includes both"} :
        Contains(ql, ph)

\* the tags of the mentioned players, ordered by where the query first
\* mentions each
QueryOrderTags(ql) ==
    LET n == Cardinality(Mentioned(ql))
        f == CHOOSE g \in [1..n -> Mentioned(ql)] :
                \A a, b \in 1..n :
                    a < b => FirstIndex(ql, PlayerTable[g[a]].short)
                             < FirstIndex(ql, PlayerTable[g[b]].short)
    IN [j \in 1..n |-> PlayerTable[f[j]].tag]

\* the tags of the mentioned players, in the order of the extractor's checks
CheckOrderTags(ql) ==
    LET n == Cardinality(Mentioned(ql))
        f == CHOOSE g \in [1..n -> Mentioned(ql)] :
                \A a, b \in 1..n : a < b => g[a] < g[b]
    IN [j \in 1..n |-> PlayerTable[f[j]].tag]

\* [{"tags": t1}, {"tags": t2}, ...]
ConjunctionOf(tags) == Lst([j \in 1..Len(tags) |-> Obj("tags" :> Str(tags[j]))])

AndCase ==
    /\ Cardinality(Mentioned(Lower(query))) >= 2
    /\ HasAndPhrase(Lower(query))

OrCase ==
    /\ Cardinality(Mentioned(Lower(query))) >= 2
    /\ ~HasAndPhrase(Lower(query))

\* C9 as stated: with two or more recognized tags and an AND-indicator phrase
\* the extractor produces {$and: [{tags: t1}, ...]} with the tags in the
\* order in which the query first mentions them.
C9_AndMembersInQueryOrder ==
    (pc \in {"x_date", "x_return", "returned"} /\ AndCase) =>
        /\ "$and" \in DOMAIN filter_dict
        /\ SameValue(filter_dict["$and"], ConjunctionOf(QueryOrderTags(Lower(query))))

\* C9 amended: with two or more recognized tags and an AND-indicator phrase
\* the tag step sets the filter to exactly {$and: [{tags: t1}, ...]} with
\* the tags in the fixed order of the extractor's player checks (Rohit
\* Sharma, Shubman Gill, Virat Kohli, Shikhar Dhawan), whatever order the
\* query names them in, and a returned filter carries that list unchanged.
C9_AndMembersInCheckOrder ==
    LET expected == ConjunctionOf(CheckOrderTags(Lower(query)))
    IN /\ (pc = "x_date" /\ AndCase) =>
            /\ DOMAIN filter_dict = {"$and"}
            /\ SameValue(filter_dict["$and"], expected)
       /\ (pc = "returned" /\ AndCase) =>
            /\ result.k = "obj"
            /\ "$and" \in DOMAIN result.v
            /\ SameValue(result.v["$and"], expected)

C9_Witness ==
    /\ pc = "returned"
    /\ AndCase
    /\ QueryOrderTags(Lower(query)) # CheckOrderTags(Lower(query))
    /\ "$and" \in DOMAIN result.v
    /\ SameValue(result.v["$and"], ConjunctionOf(CheckOrderTags(Lower(query))))

\* C10: with two or more recognized tags and no AND-indicator phrase the
\* extractor produces tags: {$in: [t1, t2, ...]} and no $and node;
\* "posts about Rohit Sharma and Shubman Gill" yields
\* {"tags": {"$in": ["#RohitSharma", "#ShubmanGill"]}}.
C10_DefaultDisjunction ==
    LET tags == CheckOrderTags(Lower(query))
        expected == Obj("$in" :> Lst([j \in 1..Len(tags) |-> Str(tags[j])]))
    IN /\ (pc \in {"x_date", "x_return"} /\ OrCase) =>
            /\ "tags" \in DOMAIN filter_dict
            /\ SameValue(filter_dict["tags"], expected)
            /\ "$and" \notin DOMAIN filter_dict
       /\ (pc = "returned" /\ OrCase) =>
            /\ result.k = "obj"
            /\ "tags" \in DOMAIN result.v
            /\ SameValue(result.v["tags"], expected)
            /\ "$and" \notin DOMAIN result.v
       /\ (pc = "returned" /\ query = "posts about Rohit Sharma and Shubman Gill") =>
            SameValue(result, Obj("tags" :> Obj("$in" :>
                        Lst(<<Str("#RohitSharma"), Str("#ShubmanGill")>>))))

C10_Witness ==
    /\ pc = "returned"
    /\ query = "posts about Rohit Sharma and Shubman Gill"
    /\ DOMAIN result.v = {"tags"}
    /\ result.v["tags"].k = "obj"

----------------------------------------------------------------------------
(* Merge step of the rule-based extractor *)

\* the members of a conjunction list that equal the one-key object {f: x}
MembersWith(l, f, x) ==
    {i \in 1..Len(l) :
        /\ l[i].k = "obj"
        /\ DOMAIN l[i].v = {f}
        /\ SameValue(l[i].v[f], x)}

\* C11: in the filter the extractor returns, a detected author and a detected
\* date range are sibling keys of the one mapping, unless the tag step
\* produced a conjunction: then the mapping is {$and: [...]} alone and the
\* author and the date range are members of the $and list.
C11_MergeKeepsAuthorAndDate ==
    LET ql == Lower(query)
        a == AuthorStep(ql)
        d == _extract_date_filter(query)
    IN pc = "returned" =>
        IF "$and" \in DOMAIN result.v
        THEN /\ DOMAIN result.v = {"$and"}
             /\ "author" \in DOMAIN a =>
                    MembersWith(result.v["$and"].v, "author", a["author"]) # {}
             /\ d.k = "obj" =>
                    MembersWith(result.v["$and"].v, "publishedTimestamp", d) # {}
        ELSE /\ "author" \in DOMAIN a =>
                    /\ "author" \in DOMAIN result.v
                    /\ SameValue(result.v["author"], a["author"])
             /\ d.k = "obj" =>
                    /\ "publishedTimestamp" \in DOMAIN result.v
                    /\ SameValue(result.v["publishedTimestamp"], d)

----------------------------------------------------------------------------
(* Validator *)

\* the mapping handed to the validator has a root-level $and or $or
HasRootJunction(m) == "$and" \in DOMAIN m \/ "$or" \in DOMAIN m

\* the field names the validator recognizes
RecognizedFields ==
    {"author", "tags", "publishedDate", "publishedTimestamp", "published_year",
     "published_month", "published_day"}

\* C12: the validator is idempotent: for the mapping obtained by normalizing
\* a JSON object, validating the validated filter again returns it unchanged.
C12_ValidatorIdempotent ==
    pc = "returned" => SameValue(Obj(_validate_filter(result.v)), result)

C12_Witness ==
    /\ pc = "returned"
    /\ "author" \in DOMAIN parsed_filter
    /\ parsed_filter["author"].k = "num"
    /\ "tags" \in DOMAIN parsed_filter
    /\ parsed_filter["tags"].k = "list"
    /\ "limit" \in DOMAIN parsed_filter
    /\ ~SameValue(result, Obj(parsed_filter))
    /\ SameValue(Obj(_validate_filter(result.v)), result)

\* C13: when the mapping handed to the validator has a root-level $and or
\* $or, the validator returns it unchanged: same keys, same values.
C13_PassThrough ==
    (pc = "returned" /\ HasRootJunction(parsed_filter))
        => SameValue(result, Obj(parsed_filter))

C13_Witness ==
    /\ pc = "returned"
    /\ "$and" \in DOMAIN parsed_filter
    /\ "limit" \in DOMAIN parsed_filter
    /\ "author" \in DOMAIN parsed_filter
    /\ parsed_filter["author"].k = "num"
    /\ SameValue(result, Obj(parsed_filter))

\* C14 as stated: for every mapping handed to the validator, the output has
\* no top-level field other than author, tags and the date fields, its keys
\* are keys of the input, and the validator does not raise.
C14_OnlyRecognizedFields ==
    /\ pc # "raised"
    /\ pc = "returned" =>
        /\ DOMAIN result.v \subseteq RecognizedFields
        /\ DOMAIN result.v \subseteq DOMAIN parsed_filter

\* C14 amended: the same for every mapping without a root-level $and or
\* $or; a mapping with one is returned whole, unknown fields included, and
\* the validator raises for no mapping.
C14_UnknownDroppedWithoutJunction ==
    /\ pc # "raised"
    /\ (pc = "returned" /\ ~HasRootJunction(parsed_filter)) =>
        /\ DOMAIN result.v \subseteq RecognizedFields
        /\ DOMAIN result.v \subseteq DOMAIN parsed_filter
    /\ (pc = "returned" /\ HasRootJunction(parsed_filter)) =>
        DOMAIN result.v = DOMAIN parsed_filter

C14_Witness ==
    /\ pc = "returned"
    /\ ~HasRootJunction(parsed_filter)
    /\ {"limit", "query", "author"} \subseteq DOMAIN parsed_filter
    /\ DOMAIN result.v = {"author"}

\* C15: the validator keeps a tags value that is a string or an operator
\* object as it is, turns a bare list into {$in: list}, and passes any other
\* tags value (another value type, an unknown operator object) through
\* unchanged: it never drops the tags field.
C15_TagShapesKept ==
    (/\ pc = "returned"
     /\ ~HasRootJunction(parsed_filter)
     /\ "tags" \in DOMAIN parsed_filter)
        => /\ "tags" \in DOMAIN result.v
           /\ SameValue(result.v["tags"],
                        IF parsed_filter["tags"].k = "list"
                        THEN Obj("$in" :> parsed_filter["tags"])
                        ELSE parsed_filter["tags"])

\* the value holds an $and or $or whose member list is empty
RECURSIVE HasEmptyJunction(_)
HasEmptyJunction(x) ==
    IF x.k = "obj"
    THEN \E f \in DOMAIN x.v :
            \/ f \in {"$and", "$or"} /\ x.v[f].k = "list" /\ Len(x.v[f].v) = 0
            \/ HasEmptyJunction(x.v[f])
    ELSE IF x.k = "list"
    THEN \E i \in 1..Len(x.v) : HasEmptyJunction(x.v[i])
    ELSE FALSE

\* C16: no filter that generate_pinecone_filter returns, from provider
\* output or from the rule-based extractor, holds an $and or $or node with
\* an empty member list.
C16_NoEmptyJunction ==
    pc = "returned" => ~HasEmptyJunction(result)

----------------------------------------------------------------------------
(* Date extraction *)

\* the rules of the date extractor whose test the query passes, numbered in
\* the listed priority order: 1 last year, 2 this year or the current year
\* 2025 occurring in the query, 3 a month name, 4 last month, 5 previous N
\* days, 6 last week
RuleMatches(q) ==
    LET ql == Lower(q)
    IN {r \in 1..6 :
          \/ r = 1 /\ Contains(ql, "last year")
          \/ r = 2 /\ (Contains(ql, "this year") \/ Contains(q, "2025"))
          \/ r = 3 /\ \E m \in 1..12 : Contains(ql, months[m])
          \/ r = 4 /\ Contains(ql, "last month")
          \/ r = 5 /\ DaysMatch(ql) # ""
          \/ r = 6 /\ Contains(ql, "last week")}

TopRule(q) == CHOOSE r \in RuleMatches(q) : \A x \in RuleMatches(q) : r <= x

\* the first month, in calendar order, that the query names
NamedMonth(q) ==
    CHOOSE m \in 1..12 :
        /\ Contains(Lower(q), months[m])
        /\ \A n \in 1..(m - 1) : ~Contains(Lower(q), months[n])

\* the range of rule r alone, from the fixed reference date 2025-07-14 UTC
RuleRange(r, q) ==
    IF r = 1 THEN DateRange(1704067200, 1735689600)
    ELSE IF r = 2 THEN DateRange(1735689600, 1767225600)
    ELSE IF r = 3 THEN MonthRange(q, NamedMonth(q))
    ELSE IF r = 4 THEN DateRange(1748736000, 1751328000)
    ELSE IF r = 5
    THEN DateRange(1752451200 - ParseInt(DaysMatch(Lower(q))) * 86400, 1752451200)
    ELSE DateRange(1751846400, 1752451200)

\* C17: the date extractor applies its rules in the fixed priority order
\* last year, this year or current year, month name, last month, previous N
\* days, last week: the range merged into the filter is that of the
\* highest-priority rule the query matches and of no other, no range is
\* produced when no rule matches, and never more than one; when the
\* extraction raises, the highest-priority matching rule is previous N days.
C17_DatePriority ==
    /\ pc \in {"x_return", "returned"} =>
        IF RuleMatches(query) = {}
        THEN "publishedTimestamp" \notin DOMAIN filter_dict
        ELSE /\ "publishedTimestamp" \in DOMAIN filter_dict
             /\ SameValue(filter_dict["publishedTimestamp"],
                          RuleRange(TopRule(query), query))
    /\ pc = "raised" => (RuleMatches(query) # {} /\ TopRule(query) = 5)

C17_Witness ==
    /\ pc = "returned"
    /\ RuleMatches(query) = {4, 6}
    /\ FirstIndex(query, "last week") < FirstIndex(query, "last month")
    /\ SameValue(result,
                 Obj("publishedTimestamp" :> DateRange(1748736000, 1751328000)))

\* first second of each month of 2025 and of January 2026, UTC
MonthStarts ==
    << 1735689600, 1738368000, 1740787200, 1743465600, 1746057600, 1748736000,
       1751328000, 1754006400, 1756684800, 1759276800, 1761955200, 1764547200,
       1767225600 >>

\* the query names a month and holds no year (neither the digits 2025 nor a
\* 20xx number between word boundaries) and no last-year/this-year phrase
MonthWithoutYear(q) ==
    /\ \E m \in 1..12 : Contains(Lower(q), months[m])
    /\ ~Contains(q, "2025")
    /\ YearMatch(q) = 0
    /\ ~Contains(Lower(q), "last year")
    /\ ~Contains(Lower(q), "this year")

C19_Year2024 ==
    (Finished /\ NoCallSucceeded /\ query = "articles from 2024") =>
        /\ pc = "returned"
        /\ SameValue(result,
                     Obj("publishedTimestamp" :> DateRange(1704067200, 1735689600)))

----------------------------------------------------------------------------
(* Search failures *)

\* search was called in this request and is over
SearchCalled ==
    \/ endpoint = "search" /\ pc # "search"
    \/ /\ endpoint = "query"
       /\ index
       /\ result.k = "obj"
       /\ pc \in {"respond", "responded", "search_raised"}

\* the index is not connected, or the last collaborator call of search (the
\* embedding of last resort, or index.query) raised
CollaboratorFailed ==
    \/ ~index
    \/ Len(external) > 0 /\ ~external[Len(external)].ok

\* C20: a failure of a search collaborator (index not connected, embedding
\* or index.query raising) never raises out of search: search returns a
\* result with an empty matches list and an error field; and the response of
\* query_and_search still carries the filter generated for the request,
\* unchanged.
C20_SearchFailureContained ==
    /\ pc # "search_raised"
    /\ (SearchCalled /\ CollaboratorFailed) =>
        /\ {"matches", "error"} \subseteq DOMAIN search_results
        /\ Len(search_results["matches"]) = 0
    /\ (pc = "responded" /\ result.k = "obj") =>
        /\ response.success
        /\ SameValue(response.filter, result)

C20_Witness ==
    /\ pc = "responded"
    /\ index
    /\ Len(external) = 3
    /\ external[1].op = "embeddings.create" /\ ~external[1].ok
    /\ external[3].op = "index.query" /\ ~external[3].ok
    /\ {"matches", "error"} \subseteq DOMAIN response.search_results
    /\ Len(response.search_results["matches"]) = 0
    /\ response.success
    /\ DOMAIN result.v = {"tags"}
    /\ SameValue(response.filter, result)

----------------------------------------------------------------------------
(* Tag post-filter *)

\* a list of strings of which at least one is a substring of tags_str
SomeListed(l, tags_str) ==
    \E i \in 1..Len(l.v) : Contains(tags_str, l.v[i].v)

StringList(x) == x.k = "list" /\ \A i \in 1..Len(x.v) : x.v[i].k = "str"

\* the tag filter has one of the forms the post-filter is specified for: a
\* string, a list of strings, or an object with one of $in, $or, $nin over a
\* list of strings or $eq, $ne over a string
ListedForm(tf) ==
    \/ tf.k = "str"
    \/ StringList(tf)
    \/ /\ tf.k = "obj"
       /\ Cardinality(DOMAIN tf.v) = 1
       /\ \/ \E op \in {"$in", "$or", "$nin"} :
                op \in DOMAIN tf.v /\ StringList(tf.v[op])
          \/ \E op \in {"$eq", "$ne"} : op \in DOMAIN tf.v /\ tf.v[op].k = "str"

\* the string-encoded tags satisfy the tag filter by substring containment
Satisfies(tags_str, tf) ==
    IF tf.k = "str" THEN Contains(tags_str, tf.v)
    ELSE IF tf.k = "list" THEN SomeListed(tf, tags_str)
    ELSE IF "$in" \in DOMAIN tf.v THEN SomeListed(tf.v["$in"], tags_str)
    ELSE IF "$or" \in DOMAIN tf.v THEN SomeListed(tf.v["$or"], tags_str)
    ELSE IF "$nin" \in DOMAIN tf.v THEN ~SomeListed(tf.v["$nin"], tags_str)
    ELSE IF "$eq" \in DOMAIN tf.v THEN Contains(tags_str, tf.v["$eq"].v)
    ELSE ~Contains(tags_str, tf.v["$ne"].v)

\* the matches of a list that satisfy the tag filter, in the list's order
RECURSIVE SatisfyingFrom(_, _, _)
SatisfyingFrom(l, i, tf) ==
    IF i > Len(l) THEN <<>>
    ELSE IF Satisfies(l[i].tags, tf)
         THEN <<l[i]>> \o SatisfyingFrom(l, i + 1, tf)
         ELSE SatisfyingFrom(l, i + 1, tf)

\* a direct call of search returned matches for a filter with a tags
\* constraint of a listed form
PostFiltered ==
    /\ pc = "search_returned"
    /\ "error" \notin DOMAIN search_results
    /\ search_filter.k = "obj"
    /\ "tags" \in DOMAIN search_filter.v
    /\ ListedForm(search_filter.v["tags"])

\* C21 as stated: the matches search returns are exactly the matches the
\* vector store returned whose string-encoded tags satisfy the tag filter
\* by substring containment, for a string, a bare list, $in, $or, $nin, $eq
\* and $ne.
C21_PostFilterBySubstring ==
    PostFiltered =>
        search_results["matches"]
            = SatisfyingFrom(external[Len(external)].returned, 1,
                             search_filter.v["tags"])

\* C21 amended: the same for every tag filter that is not empty; with an
\* empty tag filter (an empty bare list, an empty string) every match the
\* vector store returned is kept.
C21_PostFilterNonEmpty ==
    PostFiltered =>
        search_results["matches"]
            = IF Truthy(search_filter.v["tags"])
              THEN SatisfyingFrom(external[Len(external)].returned, 1,
                                  search_filter.v["tags"])
              ELSE external[Len(external)].returned

C21_Witness ==
    /\ PostFiltered
    /\ search_filter.v["tags"].k = "obj"
    /\ "$nin" \in DOMAIN search_filter.v["tags"].v
    /\ Len(external[Len(external)].returned) = 3
    /\ Len(search_results["matches"]) = 2
    /\ search_results["matches"][1].id = "a2"
    /\ search_results["matches"][2].id = "a3"

----------------------------------------------------------------------------
(* Tags constraints and the vector store *)

\* member i of a top-level $and of f is a {tags: t} constraint
TagsMember(f, i) ==
    /\ f.v["$and"].v[i].k = "obj"
    /\ "tags" \in DOMAIN f.v["$and"].v[i].v

\* f constrains tags under a top-level $and
ConstrainsTagsInAnd(f) ==
    /\ f.k = "obj"
    /\ "$and" \in DOMAIN f.v
    /\ f.v["$and"].k = "list"
    /\ \E i \in 1..Len(f.v["$and"].v) : TagsMember(f, i)

\* f constrains tags, as a top-level tags key or in a top-level $and
ConstrainsTags(f) ==
    \/ f.k = "obj" /\ "tags" \in DOMAIN f.v
    \/ ConstrainsTagsInAnd(f)

\* search was called, returned matches and no error
SearchSucceeded ==
    /\ SearchCalled
    /\ pc # "search_raised"
    /\ "error" \notin DOMAIN search_results

\* the string-encoded tags satisfy every tags constraint of f
SatisfiesAll(tags_str, f) ==
    /\ ("tags" \in DOMAIN f.v /\ ListedForm(f.v["tags"]))
          => Satisfies(tags_str, f.v["tags"])
    /\ ConstrainsTagsInAnd(f) =>
          \A i \in 1..Len(f.v["$and"].v) :
              (TagsMember(f, i) /\ ListedForm(f.v["$and"].v[i].v["tags"]))
                  => Satisfies(tags_str, f.v["$and"].v[i].v["tags"])

\* C27: every tags constraint of a filter handed to search (a top-level tags
\* key, or {tags: t} members of a top-level $and) is kept from the vector
\* store and enforced by the post-filter: no filter passed to index.query
\* constrains tags, and every returned match satisfies the tags constraints
\* by substring containment.
C27_TagsEnforcedByPostFilter ==
    /\ \A i \in 1..Len(external) :
           external[i].op = "index.query" => ~ConstrainsTags(external[i].filter)
    /\ (SearchSucceeded /\ ConstrainsTags(search_filter)) =>
           \A i \in 1..Len(search_results["matches"]) :
               SatisfiesAll(search_results["matches"][i].tags, search_filter)

----------------------------------------------------------------------------
(* Search without a connected index *)

\* a direct call of search on a client without an index is over
DisconnectedSearchDone == endpoint = "search" /\ ~index /\ pc = "search_returned"

\* without an index search returned its error result and called no
\* collaborator
NoCallWithoutIndex ==
    DisconnectedSearchDone =>
        /\ external = <<>>
        /\ DOMAIN search_results = {"matches", "error"}
        /\ Len(search_results["matches"]) = 0
        /\ search_results["error"] = "Not connected to Pinecone"

\* a call of search leaves the caller's filter as it was
SearchKeepsFilter == pc = "search" => SameValue(search_filter', search_filter)

C30_WitnessConnected ==
    /\ endpoint = "search" /\ index /\ pc = "search_returned"
    /\ search_filter.k = "obj"
    /\ {"author", "tags"} \subseteq DOMAIN search_filter.v
    /\ Len(external) > 0
    /\ external[Len(external)].op = "index.query"
    /\ DOMAIN external[Len(external)].filter.v = {"author"}

----------------------------------------------------------------------------
(* Provider chain order *)

\* the i-th call of the request went to the secondary provider
SecondaryCall(i) == calls[i].provider = "openai"

\* C23: within one request the provider chain is sequential with no retry:
\* the calls follow the configured order (the primary models in list order,
\* then the secondary provider), no candidate is called twice, no call
\* follows a call that succeeded and every call before the last has failed,
\* and the secondary provider is called at most once, only after every
\* primary model has failed or when no primary provider is configured.
C23_SequentialNoRetry ==
    /\ Len(calls) <= Candidates
    /\ \A i \in 1..Len(calls) :
         /\ IF openrouter_client /\ i <= Len(free_models)
            THEN calls[i].provider = "openrouter" /\ calls[i].model = free_models[i]
            ELSE SecondaryCall(i) /\ calls[i].model = openai_model
         /\ i < Len(calls) => ~calls[i].ok
         /\ \A j \in 1..Len(calls) :
              (calls[i].provider = calls[j].provider /\ calls[i].model = calls[j].model)
                  => i = j
         /\ SecondaryCall(i) =>
              /\ openai_client
              /\ i = Len(calls)
              /\ i = IF openrouter_client THEN Len(free_models) + 1 ELSE 1

C23_Witness ==
    /\ ChainReturned
    /\ openrouter_client /\ openai_client
    /\ Len(calls) = Len(free_models) + 1
    /\ SecondaryCall(Len(calls))
    /\ calls[Len(calls)].ok
    /\ \A i \in 1..Len(free_models) : ~calls[i].ok /\ calls[i].model = free_models[i]

\* the secondary provider was the only candidate and was called once
C23_WitnessNoPrimary ==
    /\ ChainReturned
    /\ ~openrouter_client /\ openai_client
    /\ Len(calls) = 1
    /\ SecondaryCall(1)

----------------------------------------------------------------------------
(* Shape repair *)

\* s has the form author:<name>
AuthorForm(s) == Len(s) >= 7 /\ SubSeq(s, 1, 7) = "author:"

\* the name of a string of the form author:<name>
AuthorName(s) == Strip(SubSeq(s, 8, Len(s)))

\* m has a query key whose value is a string of the form author:<name>
HasAuthorQuery(m) ==
    /\ "query" \in DOMAIN m
    /\ m["query"].k = "str"
    /\ AuthorForm(m["query"].v)

\* tags of m is an operator object containing $or
HasTagsOr(m) ==
    /\ "tags" \in DOMAIN m
    /\ m["tags"].k = "obj"
    /\ "$or" \in DOMAIN m["tags"].v

\* m with $or of its tags renamed to $in
TagsOrRenamed(m) ==
    [f \in DOMAIN m |->
        IF f = "tags"
        THEN Obj([o \in (DOMAIN m["tags"].v \ {"$or"}) \cup {"$in"} |->
                     IF o = "$in" THEN m["tags"].v["$or"] ELSE m["tags"].v[o]])
        ELSE m[f]]

\* the repaired object the statement describes
Repaired(m) ==
    IF HasAuthorQuery(m) THEN "author" :> Str(AuthorName(m["query"].v))
    ELSE IF HasTagsOr(m) THEN TagsOrRenamed(m)
    ELSE m

\* C24: shape repair of a parsed object: an object with a query key whose
\* string value has the form author:<name> becomes {author: <name>}; an
\* operator object under tags that contains $or has that key renamed to $in
\* with the same operand; every other key and value is left as it was.
C24_ShapeRepair ==
    [][pc = "normalize" => SameValue(Obj(parsed_filter'), Obj(Repaired(parsed_filter)))]_vars

----------------------------------------------------------------------------
(* Author-only queries *)

\* the known authors the query names, as positions of the fixed list
AuthorsNamed(q) ==
    {i \in 1..Len(real_authors) : Contains(Lower(q), Lower(real_authors[i]))}

\* the first of the named authors in list order
FirstNamed(q) == CHOOSE i \in AuthorsNamed(q) : \A j \in AuthorsNamed(q) : i <= j

\* the query has no surface form of a player, team or topic and matches no
\* date rule
NoTagNoDate(q) ==
    /\ Mentioned(Lower(q)) = {}
    /\ TopicTag(Lower(q)) = ""
    /\ RuleMatches(q) = {}

\* C25: for a query that names exactly one known author, no recognized tag
\* and no date expression, the rule-based extractor returns exactly
\* {author: <name>}, the name as the list spells it; when the query names
\* several known authors the first of them in list order is the author.
C25_AuthorOnly ==
    /\ (pc = "returned" /\ AuthorsNamed(query) # {} /\ NoTagNoDate(query)) =>
          /\ DOMAIN result.v = {"author"}
          /\ result.v["author"] = Str(real_authors[FirstNamed(query)])
    /\ (pc = "x_tags" /\ AuthorsNamed(query) # {}) =>
          filter_dict = ("author" :> Str(real_authors[FirstNamed(query)]))

C25_Witness ==
    /\ pc = "returned"
    /\ AuthorsNamed(query) = {2}
    /\ NoTagNoDate(query)
    /\ result = Obj("author" :> Str("Mary Poppins"))

\* the query names Akainu before Jane Doe; Jane Doe is first in the list
C25_WitnessSeveral ==
    /\ pc = "returned"
    /\ AuthorsNamed(query) = {1, 3}
    /\ NoTagNoDate(query)
    /\ result = Obj("author" :> Str("Jane Doe"))

----------------------------------------------------------------------------
(* Empty queries *)

\* the request is answered
Answered == pc \in {"responded", "pq_responded"}

\* the status of the answer: api.py returns its response model, status 200
StatusCode == IF endpoint = "api_query" THEN response.status ELSE 200

\* C26: a query request whose query string is empty is rejected with a
\* client error (a 4xx status) and never reaches filter generation or
\* search: no provider call and no index query is issued for it.
C26_EmptyQueryRejected ==
    (endpoint \in {"api_query", "query"} /\ query = "") =>
        /\ calls = <<>>
        /\ external = <<>>
        /\ result.k = "none"
        /\ Answered => StatusCode \in 400..499

----------------------------------------------------------------------------
(* Shape of date ranges *)

\* the extraction is over and produced a date filter
DateReturned ==
    /\ pc \in {"x_return", "returned"}
    /\ "publishedTimestamp" \in DOMAIN filter_dict

\* the date filter has exactly the keys $gte and $lt, both integers
RangeKeys(d) ==
    /\ d.k = "obj"
    /\ DOMAIN d.v = {"$gte", "$lt"}
    /\ d.v["$gte"].k = "num"
    /\ d.v["$lt"].k = "num"

\* the day count of the previous N days phrase the query holds
DayCount(q) == ParseInt(DaysMatch(Lower(q)))

\* the range comes from the previous N days rule
FromPreviousDays(q) == RuleMatches(q) # {} /\ TopRule(q) = 5

\* C28 as stated: every date filter the extractor returns is a non-empty
\* half-open range: exactly the keys $gte and $lt, both integer Unix
\* seconds, and $gte strictly less than $lt, for every query and every N of
\* previous N days.
C28_NonEmptyRange ==
    DateReturned =>
        /\ RangeKeys(filter_dict["publishedTimestamp"])
        /\ filter_dict["publishedTimestamp"].v["$gte"].v
             < filter_dict["publishedTimestamp"].v["$lt"].v

\* C28 amended: exactly the keys $gte and $lt, both integers, with $gte not
\* above $lt; the range is empty ($gte = $lt) exactly when it comes from
\* previous N days with N = 0, and then both bounds are the reference date.
C28_RangeOrdered ==
    DateReturned =>
        LET d == filter_dict["publishedTimestamp"]
        IN /\ RangeKeys(d)
           /\ d.v["$gte"].v <= d.v["$lt"].v
           /\ (d.v["$gte"].v = d.v["$lt"].v)
                <=> (FromPreviousDays(query) /\ DayCount(query) = 0)
           /\ FromPreviousDays(query) =>
                /\ d.v["$lt"].v = 1752451200
                /\ d.v["$lt"].v - d.v["$gte"].v = DayCount(query) * 86400

C28_Witness ==
    /\ pc = "returned"
    /\ FromPreviousDays(query)
    /\ DayCount(query) = 15
    /\ SameValue(result,
                 Obj("publishedTimestamp" :> DateRange(1751155200, 1752451200)))

\* previous 0 days: the empty range at the reference date
C28_WitnessZero ==
    /\ pc = "returned"
    /\ FromPreviousDays(query)
    /\ DayCount(query) = 0
    /\ SameValue(result,
                 Obj("publishedTimestamp" :> DateRange(1752451200, 1752451200)))

----------------------------------------------------------------------------
(* Fallback between the strategies of the normalizer *)

\* the candidate span of the first strategy that applies to t (the fenced
\* block, else the span from the first opening to the last closing brace)
\* is not a JSON object
CandidateFails(t) ==
    IF FencedSpan(t).found
    THEN IsRaise(json_loads(SubSeq(t, FencedSpan(t).a, FencedSpan(t).b)))
    ELSE /\ FindTok(t, "{") > 0
         /\ RFindTok(t, "}") > FindTok(t, "{")
         /\ IsRaise(json_loads(SubSeq(t, FindTok(t, "{"), RFindTok(t, "}"))))

\* C29: when the candidate span of a higher-priority strategy fails to parse
\* (a fenced block with malformed JSON, or a malformed first-brace-to-last-
\* brace span), the normalizer goes on to the next strategy: a text that
\* holds a brace-delimited span parsing to a non-empty JSON object does not
\* normalize to the empty mapping.
C29_StrategiesFallThrough ==
    (/\ pc = "validate"
     /\ CandidateFails(response_text.v)
     /\ ParseableSpans(response_text.v) # {})
        => DOMAIN parsed_filter # {}

----------------------------------------------------------------------------
(* Isolation of concurrent requests *)

\* the request with locals r is over with the filter (or the exception) it
\* gets when it runs alone with the provider outcomes of its own calls
AsAlone(r) ==
    r.pc \in {"returned", "raised"} =>
        LET alone == generate_pinecone_filter(r.query, ChainText(r.calls))
        IN /\ (r.pc = "raised") = IsRaise(alone)
           /\ SameValue(r.result, alone)

\* C22: filter generation shares no mutable state between requests: the
\* agent's configuration is never written, and in every interleaving of two
\* requests each request's filter is the one it gets running alone with the
\* same provider outcomes.
C22_RequestsIsolated ==
    /\ [](AsAlone(RequestLocals) /\ (parked.k = "frame" => AsAlone(parked.v)))
    /\ [][openrouter_client' = openrouter_client /\ openai_client' = openai_client]_vars

\* both requests are over, each with the filter of its own provider text
C22_Witness ==
    /\ parked.k = "frame"
    /\ pc = "returned"
    /\ parked.v.pc = "returned"
    /\ query = "articles from previous 1000000 days"
    /\ parked.v.query = "posts about Rohit Sharma and Shubman Gill"
    /\ Len(calls) = 2 /\ calls[2].ok
    /\ Len(parked.v.calls) = 1 /\ parked.v.calls[1].ok
    /\ ~SameValue(result, parked.v.result)
    /\ ~SameValue(result, generate_pinecone_filter(query, ChainText(parked.v.calls)))
    /\ AsAlone(RequestLocals)
    /\ AsAlone(parked.v)

\* both requests are in the middle of their provider chains
C22_WitnessInFlight ==
    /\ parked.k = "frame"
    /\ pc = "llm_primary" /\ Len(calls) = 2
    /\ parked.v.pc = "llm_primary" /\ Len(parked.v.calls) = 1

====
